---- MODULE Spec2Model ----
(***************************************************************************)
(* Budget-consistency and recurrence-processing engine of the expense      *)
(* tracker: the transaction, budget and recurrence tRPC routers acting on  *)
(* the Prisma store (tables Transaction, Budget, Recurrence).              *)
(*                                                                         *)
(* Money is DECIMAL(12,2); amounts are modelled as integer cents.          *)
(* A Date is a record [day, ms]: days since 1970-01-01 and milliseconds    *)
(* inside the day; the server's local time zone is taken to be UTC.        *)
(***************************************************************************)
EXTENDS Integers, Sequences, FiniteSets, TLC

VARIABLES
  db,     \* the store: rows of Transaction, Budget, Recurrence and the id counters
  now,    \* the server clock (what `new Date()` returns)
  last,   \* the last finished request: its procedure, its outcome, its count
  reqs    \* requests in flight (read done, store transaction not yet committed)

vars == <<db, now, last, reqs>>

----------------------------------------------------------------------------
(* Bounds of the model *)

MaxTx == 1          \* Transaction rows ever created by transaction.create
MaxGen == 2         \* Transaction rows ever generated by recurrence.processDue
MaxRec == 2         \* Recurrence rows ever created

----------------------------------------------------------------------------
(* Optional values: undefined / null is <<>>, a present value v is <<v>> *)

None == <<>>
Some(v) == <<v>>
Has(o) == o # <<>>
OrElse(o, dflt) == IF o = <<>> THEN dflt ELSE o[1]

----------------------------------------------------------------------------
(* Calendar arithmetic of the JavaScript Date object (proleptic Gregorian) *)

\* days since 1970-01-01 of the civil date y-m-d (m in 1..12)
DaysFromCivil(y, m, d) ==
  LET yy  == IF m <= 2 THEN y - 1 ELSE y
      era == yy \div 400
      yoe == yy - era * 400
      mp  == IF m > 2 THEN m - 3 ELSE m + 9
      doy == (153 * mp + 2) \div 5 + d - 1
      doe == yoe * 365 + yoe \div 4 - yoe \div 100 + doy
  IN  era * 146097 + doe - 719468

\* the civil date [y, m, d] of a day number
CivilFromDays(z) ==
  LET zz  == z + 719468
      era == zz \div 146097
      doe == zz - era * 146097
      yoe == (doe - doe \div 1460 + doe \div 36524 - doe \div 146096) \div 365
      doy == doe - (365 * yoe + yoe \div 4 - yoe \div 100)
      mp  == (5 * doy + 2) \div 153
      d   == doy - (153 * mp + 2) \div 5 + 1
      m   == IF mp < 10 THEN mp + 3 ELSE mp - 9
      y   == yoe + era * 400 + (IF m <= 2 THEN 1 ELSE 0)
  IN  [y |-> y, m |-> m, d |-> d]

\* MakeDay of ECMAScript: month index and day of month may overflow
MakeDay(year, monthIndex, date) ==
  LET ym == year + monthIndex \div 12
      mn == monthIndex % 12
  IN  DaysFromCivil(ym, mn + 1, 1) + date - 1

\* new Date(year, monthIndex, date, hours, minutes, seconds)
NewDate(year, monthIndex, date, hours, minutes, seconds) ==
  [day |-> MakeDay(year, monthIndex, date),
   ms  |-> ((hours * 60 + minutes) * 60 + seconds) * 1000]

getFullYear(dt) == CivilFromDays(dt.day).y
getMonth(dt)    == CivilFromDays(dt.day).m - 1      \* 0-based, as in JavaScript
getDate(dt)     == CivilFromDays(dt.day).d

\* Date.prototype.setDate / setMonth / setFullYear: the time of day is kept
setDate(dt, date)     == [dt EXCEPT !.day = MakeDay(getFullYear(dt), getMonth(dt), date)]
setMonth(dt, month)   == [dt EXCEPT !.day = MakeDay(getFullYear(dt), month, getDate(dt))]
setFullYear(dt, year) == [dt EXCEPT !.day = MakeDay(year, getMonth(dt), getDate(dt))]

\* comparison of two instants (lte / gte / > of the store and of JavaScript)
DateLE(a, b) == a.day < b.day \/ (a.day = b.day /\ a.ms <= b.ms)
DateGT(a, b) == ~DateLE(a, b)

\* a calendar day at 00:00:00.000
Day(y, m, d) == NewDate(y, m - 1, d, 0, 0, 0)

\* an instant inside the final second of a calendar day: 23:59:59.500
LastSecond(y, m, d) == [day |-> DaysFromCivil(y, m, d), ms |-> 86399500]

----------------------------------------------------------------------------
(* Users, categories (category CRUD is outside the engine: a fixed table)  *)

Users == {"u1", "u2"}
Categories == {"food", "fun", "rent"}
CategoryOwner == [c \in Categories |-> IF c = "rent" THEN "u2" ELSE "u1"]

EXPENSE == "EXPENSE"
INCOME == "INCOME"
TransactionType == {INCOME, EXPENSE}

\* ctx.prisma.category.findFirst({ where: { id, userId } }) finds a row
categoryFound(uid, categoryId) ==
  categoryId \in Categories /\ CategoryOwner[categoryId] = uid

----------------------------------------------------------------------------
(* The store *)

EmptyDb ==
  [transactions |-> {}, budgets |-> {}, recurrences |-> {},
   nextTxId |-> 1, nextRecId |-> 1]

RECURSIVE SumAmounts(_)
SumAmounts(rows) ==
  IF rows = {} THEN 0
  ELSE LET r == CHOOSE x \in rows : TRUE
       IN  r.amount + SumAmounts(rows \ {r})

\* the key of a Budget row within its owner's rows
KeyOf(b) == [categoryId |-> b.categoryId, month |-> b.month, year |-> b.year]

\* where: { userId, categoryId, month, year } on Budget
budgetWhere(b, uid, categoryId, month, year) ==
  /\ b.userId = uid
  /\ b.categoryId = categoryId
  /\ b.month = month
  /\ b.year = year

\* (mutant) an increment that makes the row when there is none, as an upsert would
budgetUpdateManyCreating(d, uid, categoryId, month, year, delta) ==
  IF \E b \in d.budgets : budgetWhere(b, uid, categoryId, month, year)
    THEN [d EXCEPT !.budgets =
            { IF budgetWhere(b, uid, categoryId, month, year)
                THEN [b EXCEPT !.spent = @ + delta]
                ELSE b : b \in d.budgets }]
    ELSE [d EXCEPT !.budgets = @ \cup
            {[userId |-> uid, categoryId |-> categoryId, month |-> month,
              year |-> year, amount |-> 0, spent |-> delta]}]

\* (mutant) an increment that removes a row whose spent falls to nothing
budgetUpdateManyPruning(d, uid, categoryId, month, year, delta) ==
  [d EXCEPT !.budgets =
     { c \in { IF budgetWhere(b, uid, categoryId, month, year)
                 THEN [b EXCEPT !.spent = @ + delta]
                 ELSE b : b \in d.budgets } :
         ~(budgetWhere(c, uid, categoryId, month, year) /\ c.spent <= 0) }]

\* budget.updateMany({ where: key, data: { spent: { increment: delta } } }):
\* an atomic increment of every matching row; no row is created
budgetUpdateMany(d, uid, categoryId, month, year, delta) ==
  [d EXCEPT !.budgets =
     { IF budgetWhere(b, uid, categoryId, month, year)
         THEN [b EXCEPT !.spent = @ + delta]
         ELSE b : b \in d.budgets }]

\* (mutant) transaction.findFirst({ where: { id } }): the owner is not checked
transactionFindFirstAnyUser(d, uid, id) ==
  { t \in d.transactions : t.id = id }

\* transaction.findFirst({ where: { id, userId } }): the rows found (none or one)
transactionFindFirst(d, uid, id) ==
  { t \in d.transactions : t.id = id /\ t.userId = uid }

\* transaction.update({ where: { id }, data }): undefined fields are left alone
transactionData(t, data) ==
  [t EXCEPT !.categoryId  = OrElse(data.categoryId, @),
            !.amount      = OrElse(data.amount, @),
            !.type        = OrElse(data.type, @),
            !.description = IF Has(data.description) THEN data.description ELSE @,
            !.date        = OrElse(data.date, @)]

\* transaction.aggregate({ where: { userId, categoryId, type: EXPENSE,
\*                                  date: { gte, lte } }, _sum: { amount } })
aggregateSpent(d, uid, categoryId, startDate, endDate) ==
  SumAmounts({ t \in d.transactions :
                 /\ t.userId = uid
                 /\ t.categoryId = categoryId
                 /\ t.type = EXPENSE
                 /\ DateLE(startDate, t.date)
                 /\ DateLE(t.date, endDate) })

----------------------------------------------------------------------------
(* Statements issued inside ctx.prisma.$transaction(async (tx) => ...)     *)

StmtBudget(uid, categoryId, month, year, delta) ==
  [kind |-> "budget.updateMany", uid |-> uid, categoryId |-> categoryId,
   month |-> month, year |-> year, delta |-> delta]

StmtTxCreate(row) == [kind |-> "transaction.create", data |-> row]
StmtTxUpdate(id, data) == [kind |-> "transaction.update", id |-> id, data |-> data]
StmtTxDelete(id) == [kind |-> "transaction.delete", id |-> id]
StmtRecUpdate(id, nextDueDate, isActive) ==
  [kind |-> "recurrence.update", id |-> id,
   nextDueDate |-> nextDueDate, isActive |-> isActive]

\* the statement throws: update / delete of a row that is gone (P2025), or a
\* created row that refers to a recurrence that is gone (foreign key)
StmtFails(d, s) ==
  CASE s.kind = "transaction.update" -> ~\E t \in d.transactions : t.id = s.id
    [] s.kind = "transaction.delete" -> ~\E t \in d.transactions : t.id = s.id
    [] s.kind = "recurrence.update"  -> ~\E r \in d.recurrences : r.id = s.id
    [] s.kind = "transaction.create" ->
         /\ Has(s.data.recurrenceId)
         /\ ~\E r \in d.recurrences : r.id = s.data.recurrenceId[1]
    [] OTHER -> FALSE

ApplyStmt(d, s) ==
  CASE s.kind = "budget.updateMany" ->
         budgetUpdateMany(d, s.uid, s.categoryId, s.month, s.year, s.delta)
    [] s.kind = "transaction.create" ->
         [d EXCEPT !.transactions = @ \cup {[id |-> d.nextTxId] @@ s.data},
                   !.nextTxId = @ + 1]
    [] s.kind = "transaction.update" ->
         [d EXCEPT !.transactions =
            { IF t.id = s.id THEN transactionData(t, s.data) ELSE t : t \in @ }]
    [] s.kind = "transaction.delete" ->
         [d EXCEPT !.transactions = { t \in @ : t.id # s.id }]
    [] s.kind = "recurrence.update" ->
         [d EXCEPT !.recurrences =
            { IF r.id = s.id
                THEN [r EXCEPT !.nextDueDate = s.nextDueDate, !.isActive = s.isActive]
                ELSE r : r \in @ }]

\* the statements in order on d; when one throws, the roll-back to d0
\* (a is <<d0, d, stmts>> as values: each argument is evaluated once)
RECURSIVE Exec(_, _, _)
Exec(d0, d, stmts) ==
  CHOOSE out \in
    { IF a[3] = <<>> THEN [ok |-> TRUE, db |-> a[2]]
      ELSE IF StmtFails(a[2], a[3][1]) THEN [ok |-> FALSE, db |-> a[1]]
      ELSE Exec(a[1], ApplyStmt(a[2], a[3][1]), Tail(a[3])) :
      a \in {<<d0, d, stmts>>} } : TRUE

\* ctx.prisma.$transaction(callback): every statement of the callback, or, when
\* one throws, none
runTransaction(d, stmts) == Exec(d, d, stmts)

Done(op, res, n) == [op |-> op, res |-> res, n |-> n]

----------------------------------------------------------------------------
(* transactionRouter *)

\* the callback of create
createStmts(uid, input) ==
  <<StmtTxCreate([userId |-> uid, categoryId |-> input.categoryId,
                  amount |-> input.amount, type |-> input.type,
                  description |-> input.description, date |-> input.date,
                  recurrenceId |-> None])>>
  \o (IF input.type = EXPENSE
        THEN <<StmtBudget(uid, input.categoryId, getMonth(input.date) + 1,
                          getFullYear(input.date), input.amount)>>
        ELSE <<>>)

\* (mutant) the old contribution is reverted only when the row stays an EXPENSE
updateStmtsKeepOnTypeChange(uid, existing, input) ==
  LET newType == OrElse(input.type, existing.type)
      newDate == OrElse(input.date, existing.date)
  IN  (IF existing.type = EXPENSE /\ newType = EXPENSE
         THEN <<StmtBudget(uid, existing.categoryId, getMonth(existing.date) + 1,
                           getFullYear(existing.date), 0 - existing.amount)>>
         ELSE <<>>)
      \o <<StmtTxUpdate(input.id, input)>>
      \o (IF newType = EXPENSE
            THEN <<StmtBudget(uid, OrElse(input.categoryId, existing.categoryId),
                              getMonth(newDate) + 1, getFullYear(newDate),
                              OrElse(input.amount, existing.amount))>>
            ELSE <<>>)

\* (mutant) the new contribution is the supplied amount, 0 when none is supplied
updateStmtsNoFallback(uid, existing, input) ==
  LET newType == OrElse(input.type, existing.type)
      newDate == OrElse(input.date, existing.date)
  IN  (IF existing.type = EXPENSE
         THEN <<StmtBudget(uid, existing.categoryId, getMonth(existing.date) + 1,
                           getFullYear(existing.date), 0 - existing.amount)>>
         ELSE <<>>)
      \o <<StmtTxUpdate(input.id, input)>>
      \o (IF newType = EXPENSE
            THEN <<StmtBudget(uid, OrElse(input.categoryId, existing.categoryId),
                              getMonth(newDate) + 1, getFullYear(newDate),
                              OrElse(input.amount, 0))>>
            ELSE <<>>)

\* the callback of update; existing is the row read before the transaction
updateStmts(uid, existing, input) ==
  LET oldMonth == getMonth(existing.date) + 1
      oldYear == getFullYear(existing.date)
      newType == OrElse(input.type, existing.type)
      newDate == OrElse(input.date, existing.date)
      newMonth == getMonth(newDate) + 1
      newYear == getFullYear(newDate)
      newAmount == OrElse(input.amount, existing.amount)
  IN  (IF existing.type = EXPENSE
         THEN <<StmtBudget(uid, existing.categoryId, oldMonth, oldYear,
                           0 - existing.amount)>>
         ELSE <<>>)
      \o <<StmtTxUpdate(input.id, input)>>
      \o (IF newType = EXPENSE
            THEN <<StmtBudget(uid, OrElse(input.categoryId, existing.categoryId),
                              newMonth, newYear, newAmount)>>
            ELSE <<>>)

\* (mutant) the row is deleted and its budget is left as it was
deleteStmtsNoRevert(uid, transaction, input) == <<StmtTxDelete(input.id)>>

\* the callback of delete; transaction is the row read before the transaction
deleteStmts(uid, transaction, input) ==
  (IF transaction.type = EXPENSE
     THEN <<StmtBudget(uid, transaction.categoryId, getMonth(transaction.date) + 1,
                       getFullYear(transaction.date), 0 - transaction.amount)>>
     ELSE <<>>)
  \o <<StmtTxDelete(input.id)>>

Outcome(op, r) == Done(op, IF r.ok THEN "ok" ELSE "error", 0)

transactionCreate(uid, input) ==
  /\ db.nextTxId <= MaxTx
  /\ IF ~categoryFound(uid, input.categoryId)
       THEN /\ last' = Done("transaction.create", "NOT_FOUND", 0)
            /\ UNCHANGED db
       ELSE \E r \in {runTransaction(db, createStmts(uid, input))} :
              /\ db' = r.db
              /\ last' = Outcome("transaction.create", r)
  /\ UNCHANGED <<now, reqs>>

\* the checks of update before its transaction: "ok" or the error thrown
updateCheck(d, uid, input) ==
  IF transactionFindFirst(d, uid, input.id) = {} THEN "NOT_FOUND"
  ELSE IF Has(input.categoryId) /\ ~categoryFound(uid, input.categoryId[1])
    THEN "NOT_FOUND"
  ELSE "ok"

transactionUpdate(uid, input) ==
  /\ IF updateCheck(db, uid, input) # "ok"
       THEN /\ last' = Done("transaction.update", "NOT_FOUND", 0)
            /\ UNCHANGED db
       ELSE \E existing \in transactionFindFirst(db, uid, input.id) :
            \E r \in {runTransaction(db, updateStmts(uid, existing, input))} :
              /\ db' = r.db
              /\ last' = Outcome("transaction.update", r)
  /\ UNCHANGED <<now, reqs>>

transactionDelete(uid, input) ==
  /\ IF transactionFindFirst(db, uid, input.id) = {}
       THEN /\ last' = Done("transaction.delete", "NOT_FOUND", 0)
            /\ UNCHANGED db
       ELSE \E transaction \in transactionFindFirst(db, uid, input.id) :
            \E r \in {runTransaction(db, deleteStmts(uid, transaction, input))} :
              /\ db' = r.db
              /\ last' = Outcome("transaction.delete", r)
  /\ UNCHANGED <<now, reqs>>

----------------------------------------------------------------------------
(* update and delete as two steps of a request: the findFirst of the        *)
(* handler runs on ctx.prisma before $transaction is entered, so other      *)
(* requests can commit between the read and the transaction.                *)

Clients == {"c1", "c2"}

Request(client, op, uid, input, existing) ==
  [client |-> client, op |-> op, uid |-> uid, input |-> input, existing |-> existing]

Idle(client) == \A q \in reqs : q.client # client

transactionUpdateRead(client, uid, input) ==
  /\ Idle(client)
  /\ IF updateCheck(db, uid, input) # "ok"
       THEN /\ last' = Done("transaction.update", "NOT_FOUND", 0)
            /\ UNCHANGED reqs
       ELSE \E existing \in transactionFindFirst(db, uid, input.id) :
              /\ reqs' = reqs \cup
                   {Request(client, "transaction.update", uid, input, existing)}
              /\ UNCHANGED last
  /\ UNCHANGED <<db, now>>

transactionUpdateCommit(client) ==
  /\ \E q \in reqs :
       /\ q.client = client /\ q.op = "transaction.update"
       /\ \E r \in {runTransaction(db, updateStmts(q.uid, q.existing, q.input))} :
            /\ db' = r.db
            /\ last' = Outcome("transaction.update", r)
       /\ reqs' = reqs \ {q}
  /\ UNCHANGED now

transactionDeleteRead(client, uid, input) ==
  /\ Idle(client)
  /\ IF transactionFindFirst(db, uid, input.id) = {}
       THEN /\ last' = Done("transaction.delete", "NOT_FOUND", 0)
            /\ UNCHANGED reqs
       ELSE \E transaction \in transactionFindFirst(db, uid, input.id) :
              /\ reqs' = reqs \cup
                   {Request(client, "transaction.delete", uid, input, transaction)}
              /\ UNCHANGED last
  /\ UNCHANGED <<db, now>>

transactionDeleteCommit(client) ==
  /\ \E q \in reqs :
       /\ q.client = client /\ q.op = "transaction.delete"
       /\ \E r \in {runTransaction(db, deleteStmts(q.uid, q.existing, q.input))} :
            /\ db' = r.db
            /\ last' = Outcome("transaction.delete", r)
       /\ reqs' = reqs \ {q}
  /\ UNCHANGED now

----------------------------------------------------------------------------
(* The callback of $transaction statement by statement: the statements run  *)
(* on the transaction client tx, whose writes the store shows to nobody     *)
(* until the callback returns; a throw, a store error or the death of the   *)
(* process before that discards them.                                       *)

Callback(op, stmts) ==
  [op |-> op, all |-> stmts, stmts |-> stmts, work |-> db]

\* (mutant) the statements are issued on ctx.prisma: each is visible at once
visibleAfterStmtDirect(d, work) == work

\* what the store shows after a statement of an open transaction
visibleAfterStmt(d, work) == d

\* (mutant) the statements executed before the failure stay in the store
rolledBackPartial(d, work) == work

\* what the store holds after an open transaction is abandoned
rolledBack(d, work) == d

transactionCreateBegin(uid, input) ==
  /\ reqs = {}
  /\ db.nextTxId <= MaxTx
  /\ IF ~categoryFound(uid, input.categoryId)
       THEN /\ last' = Done("transaction.create", "NOT_FOUND", 0)
            /\ UNCHANGED reqs
       ELSE /\ reqs' = {Callback("transaction.create", createStmts(uid, input))}
            /\ UNCHANGED last
  /\ UNCHANGED <<db, now>>

transactionUpdateBegin(uid, input) ==
  /\ reqs = {}
  /\ IF updateCheck(db, uid, input) # "ok"
       THEN /\ last' = Done("transaction.update", "NOT_FOUND", 0)
            /\ UNCHANGED reqs
       ELSE \E existing \in transactionFindFirst(db, uid, input.id) :
              /\ reqs' = {Callback("transaction.update",
                                   updateStmts(uid, existing, input))}
              /\ UNCHANGED last
  /\ UNCHANGED <<db, now>>

transactionDeleteBegin(uid, input) ==
  /\ reqs = {}
  /\ IF transactionFindFirst(db, uid, input.id) = {}
       THEN /\ last' = Done("transaction.delete", "NOT_FOUND", 0)
            /\ UNCHANGED reqs
       ELSE \E transaction \in transactionFindFirst(db, uid, input.id) :
              /\ reqs' = {Callback("transaction.delete",
                                   deleteStmts(uid, transaction, input))}
              /\ UNCHANGED last
  /\ UNCHANGED <<db, now>>

\* the next awaited statement of the callback
callbackStep ==
  /\ \E q \in reqs :
       /\ q.stmts # <<>>
       /\ IF StmtFails(q.work, q.stmts[1])
            THEN /\ reqs' = {}
                 /\ last' = Done(q.op, "error", Len(q.all) - Len(q.stmts))
                 /\ UNCHANGED db
            ELSE \E work \in {ApplyStmt(q.work, q.stmts[1])} :
                   /\ reqs' = {[q EXCEPT !.stmts = Tail(@), !.work = work]}
                   /\ db' = visibleAfterStmt(db, work)
                   /\ UNCHANGED last
  /\ UNCHANGED now

\* the callback returns: the transaction commits
callbackCommit ==
  /\ \E q \in reqs :
       /\ q.stmts = <<>>
       /\ db' = q.work
       /\ last' = Done(q.op, "ok", 0)
  /\ reqs' = {}
  /\ UNCHANGED now

\* the process dies or the connection fails: the store rolls the transaction back
callbackAbort ==
  /\ \E q \in reqs :
       /\ last' = Done(q.op, "aborted", Len(q.all) - Len(q.stmts))
       /\ db' = rolledBack(db, q.work)
  /\ reqs' = {}
  /\ UNCHANGED now

----------------------------------------------------------------------------
(* budgetRouter *)

\* the date range of a budget month: first day 00:00:00 to last day 23:59:59
monthStart(month, year) == NewDate(year, month - 1, 1, 0, 0, 0)
monthEnd(month, year) == NewDate(year, month, 0, 23, 59, 59)

\* budget.upsert({ where: key, create: {..., amount, spent}, update: {amount, spent} })
budgetUpsert(d, uid, categoryId, month, year, amount, spent) ==
  IF \E b \in d.budgets : budgetWhere(b, uid, categoryId, month, year)
    THEN [d EXCEPT !.budgets =
            { IF budgetWhere(b, uid, categoryId, month, year)
                THEN [b EXCEPT !.amount = amount, !.spent = spent]
                ELSE b : b \in @ }]
    ELSE [d EXCEPT !.budgets = @ \cup
            {[userId |-> uid, categoryId |-> categoryId, month |-> month,
              year |-> year, amount |-> amount, spent |-> spent]}]

budgetGetOrCreate(uid, input) ==
  /\ IF ~categoryFound(uid, input.categoryId)
       THEN /\ last' = Done("budget.getOrCreate", "NOT_FOUND", 0)
            /\ UNCHANGED db
       ELSE LET startDate == monthStart(input.month, input.year)
                endDate == monthEnd(input.month, input.year)
                spent == aggregateSpent(db, uid, input.categoryId, startDate, endDate)
            IN  /\ db' = budgetUpsert(db, uid, input.categoryId, input.month,
                                      input.year, input.amount, spent)
                /\ last' = Done("budget.getOrCreate", "ok", 0)
  /\ UNCHANGED <<now, reqs>>

\* A Budget row is identified by its owner and key (its unique index);
\* budget.findFirst({ where: { id, userId } })
budgetFindFirst(d, uid, id) ==
  { b \in d.budgets :
      b.userId = uid /\ b.userId = id.userId /\ KeyOf(b) = id.key }

budgetUpdate(uid, input) ==
  /\ IF budgetFindFirst(db, uid, input.id) = {}
       THEN /\ last' = Done("budget.update", "NOT_FOUND", 0)
            /\ UNCHANGED db
       ELSE /\ db' = [db EXCEPT !.budgets =
                        { IF b \in budgetFindFirst(db, uid, input.id)
                            THEN [b EXCEPT !.amount = input.amount] ELSE b :
                          b \in @ }]
            /\ last' = Done("budget.update", "ok", 0)
  /\ UNCHANGED <<now, reqs>>

budgetDelete(uid, input) ==
  /\ IF budgetFindFirst(db, uid, input.id) = {}
       THEN /\ last' = Done("budget.delete", "NOT_FOUND", 0)
            /\ UNCHANGED db
       ELSE /\ db' = [db EXCEPT !.budgets = @ \ budgetFindFirst(db, uid, input.id)]
            /\ last' = Done("budget.delete", "ok", 0)
  /\ UNCHANGED <<now, reqs>>

\* (mutant) the month before January is taken in the same year
sourceMonthOfSameYear(targetMonth, targetYear) ==
  [month |-> IF targetMonth - 1 = 0 THEN 12 ELSE targetMonth - 1, year |-> targetYear]

\* the month before the target month
sourceMonthOf(targetMonth, targetYear) ==
  IF targetMonth - 1 = 0
    THEN [month |-> 12, year |-> targetYear - 1]
    ELSE [month |-> targetMonth - 1, year |-> targetYear]

\* budget.upsert({ where: key, create: {..., amount, spent: 0}, update: {} })
\* for every budget of the source month
copiedBudgets(d, uid, previousBudgets, targetMonth, targetYear) ==
  d.budgets \cup
    { [userId |-> uid, categoryId |-> budget.categoryId, month |-> targetMonth,
       year |-> targetYear, amount |-> budget.amount, spent |-> 0] :
      budget \in { p \in previousBudgets :
                     ~\E b \in d.budgets :
                        budgetWhere(b, uid, p.categoryId, targetMonth, targetYear) } }

budgetCopyFromPreviousMonth(uid, input) ==
  /\ \E previousBudgets \in
         {{ b \in db.budgets :
              /\ b.userId = uid
              /\ b.month = sourceMonthOf(input.targetMonth, input.targetYear).month
              /\ b.year = sourceMonthOf(input.targetMonth, input.targetYear).year }} :
       IF previousBudgets = {}
         THEN /\ last' = Done("budget.copyFromPreviousMonth", "NOT_FOUND", 0)
              /\ UNCHANGED db
         ELSE /\ db' = [db EXCEPT !.budgets =
                          copiedBudgets(db, uid, previousBudgets,
                                        input.targetMonth, input.targetYear)]
              /\ last' = Done("budget.copyFromPreviousMonth", "ok",
                              Cardinality(previousBudgets))
  /\ UNCHANGED <<now, reqs>>

\* one request at a time: every budget of the month gets the aggregate of its
\* category over the month's date range
budgetRecalculateSpent(uid, input) ==
  /\ db' = [db EXCEPT !.budgets =
              { IF b.userId = uid /\ b.month = input.month /\ b.year = input.year
                  THEN [b EXCEPT !.spent =
                          aggregateSpent(db, uid, b.categoryId,
                                         monthStart(input.month, input.year),
                                         monthEnd(input.month, input.year))]
                  ELSE b :
                b \in @ }]
  /\ last' = Done("budget.recalculateSpent", "ok",
                  Cardinality({ b \in db.budgets :
                                  b.userId = uid /\ b.month = input.month
                                  /\ b.year = input.year }))
  /\ UNCHANGED <<now, reqs>>

\* getOrCreate and recalculateSpent as the requests they are: the aggregate
\* is read with ctx.prisma first, spent is written by a later statement, and
\* other requests may commit in between
budgetGetOrCreateRead(client, uid, input) ==
  /\ Idle(client)
  /\ IF ~categoryFound(uid, input.categoryId)
       THEN /\ last' = Done("budget.getOrCreate", "NOT_FOUND", 0)
            /\ UNCHANGED reqs
       ELSE /\ reqs' = reqs \cup
                 {Request(client, "budget.getOrCreate", uid, input,
                          aggregateSpent(db, uid, input.categoryId,
                                         monthStart(input.month, input.year),
                                         monthEnd(input.month, input.year)))}
            /\ UNCHANGED last
  /\ UNCHANGED <<db, now>>

budgetGetOrCreateCommit(client) ==
  /\ \E q \in reqs :
       /\ q.client = client /\ q.op = "budget.getOrCreate"
       /\ db' = budgetUpsert(db, q.uid, q.input.categoryId, q.input.month,
                             q.input.year, q.input.amount, q.existing)
       /\ reqs' = reqs \ {q}
  /\ last' = Done("budget.getOrCreate", "ok", 0)
  /\ UNCHANGED now

\* findMany of the month's budgets and, for each, the aggregate of its category
budgetRecalculateRead(client, uid, input) ==
  /\ Idle(client)
  /\ \E budgets \in {{ b \in db.budgets :
                        b.userId = uid /\ b.month = input.month /\ b.year = input.year }} :
       IF budgets = {}
         THEN /\ last' = Done("budget.recalculateSpent", "ok", 0)
              /\ UNCHANGED reqs
         ELSE /\ reqs' = reqs \cup
                   {Request(client, "budget.recalculateSpent", uid, input,
                            { [key |-> KeyOf(b),
                               spent |-> aggregateSpent(db, uid, b.categoryId,
                                           monthStart(input.month, input.year),
                                           monthEnd(input.month, input.year))] :
                              b \in budgets })}
              /\ UNCHANGED last
  /\ UNCHANGED <<db, now>>

\* budget.update({ where: { id }, data: { spent } }) of one of the budgets read
budgetRecalculateWrite(client) ==
  /\ \E q \in reqs :
       /\ q.client = client /\ q.op = "budget.recalculateSpent"
       /\ \E u \in q.existing :
            /\ db' = [db EXCEPT !.budgets =
                        { IF b.userId = q.uid /\ KeyOf(b) = u.key
                            THEN [b EXCEPT !.spent = u.spent] ELSE b : b \in @ }]
            /\ IF q.existing = {u}
                 THEN /\ reqs' = reqs \ {q}
                      /\ last' = Done("budget.recalculateSpent", "ok", 1)
                 ELSE /\ reqs' = (reqs \ {q}) \cup {[q EXCEPT !.existing = @ \ {u}]}
                      /\ UNCHANGED last
  /\ UNCHANGED now

----------------------------------------------------------------------------
(* recurrenceRouter *)

DAILY == "DAILY"
WEEKLY == "WEEKLY"
BIWEEKLY == "BIWEEKLY"
MONTHLY == "MONTHLY"
QUARTERLY == "QUARTERLY"
YEARLY == "YEARLY"
RecurrenceFrequency == {DAILY, WEEKLY, BIWEEKLY, MONTHLY, QUARTERLY, YEARLY}

\* (mutant) a month is taken to be thirty days
calculateNextDueDateThirtyDays(currentDate, frequency) ==
  CASE frequency = DAILY     -> setDate(currentDate, getDate(currentDate) + 1)
    [] frequency = WEEKLY    -> setDate(currentDate, getDate(currentDate) + 7)
    [] frequency = BIWEEKLY  -> setDate(currentDate, getDate(currentDate) + 14)
    [] frequency = MONTHLY   -> setDate(currentDate, getDate(currentDate) + 30)
    [] frequency = QUARTERLY -> setDate(currentDate, getDate(currentDate) + 90)
    [] frequency = YEARLY    -> setFullYear(currentDate, getFullYear(currentDate) + 1)

\* (mutant) YEARLY stays in the year of the current date
calculateNextDueDateSameYear(currentDate, frequency) ==
  CASE frequency = DAILY     -> setDate(currentDate, getDate(currentDate) + 1)
    [] frequency = WEEKLY    -> setDate(currentDate, getDate(currentDate) + 7)
    [] frequency = BIWEEKLY  -> setDate(currentDate, getDate(currentDate) + 14)
    [] frequency = MONTHLY   -> setMonth(currentDate, getMonth(currentDate) + 1)
    [] frequency = QUARTERLY -> setMonth(currentDate, getMonth(currentDate) + 3)
    [] frequency = YEARLY    -> setFullYear(currentDate, getFullYear(currentDate))

calculateNextDueDate(currentDate, frequency) ==
  CASE frequency = DAILY     -> setDate(currentDate, getDate(currentDate) + 1)
    [] frequency = WEEKLY    -> setDate(currentDate, getDate(currentDate) + 7)
    [] frequency = BIWEEKLY  -> setDate(currentDate, getDate(currentDate) + 14)
    [] frequency = MONTHLY   -> setMonth(currentDate, getMonth(currentDate) + 1)
    [] frequency = QUARTERLY -> setMonth(currentDate, getMonth(currentDate) + 3)
    [] frequency = YEARLY    -> setFullYear(currentDate, getFullYear(currentDate) + 1)

recurrenceCreate(uid, input) ==
  /\ db.nextRecId <= MaxRec
  /\ IF ~categoryFound(uid, input.categoryId)
       THEN /\ last' = Done("recurrence.create", "NOT_FOUND", 0)
            /\ UNCHANGED db
       ELSE /\ db' = [db EXCEPT
                        !.recurrences = @ \cup
                          {[id |-> db.nextRecId, userId |-> uid,
                            categoryId |-> input.categoryId, amount |-> input.amount,
                            type |-> input.type, description |-> input.description,
                            frequency |-> input.frequency,
                            startDate |-> input.startDate, endDate |-> input.endDate,
                            nextDueDate |-> input.startDate, isActive |-> TRUE]},
                        !.nextRecId = @ + 1]
            /\ last' = Done("recurrence.create", "ok", 0)
  /\ UNCHANGED <<now, reqs>>

\* (mutant) the recurrence is looked up by id alone
recurrenceFindFirstAnyUser(d, uid, id) ==
  { r \in d.recurrences : r.id = id }

\* recurrence.findFirst({ where: { id, userId } }): the rows found (none or one)
recurrenceFindFirst(d, uid, id) ==
  { r \in d.recurrences : r.id = id /\ r.userId = uid }

\* (mutant) a change of frequency restarts the schedule at the start date
recurrenceDataRescheduling(r, data) ==
  [r EXCEPT !.categoryId  = OrElse(data.categoryId, @),
            !.amount      = OrElse(data.amount, @),
            !.type        = OrElse(data.type, @),
            !.description = IF Has(data.description) THEN data.description ELSE @,
            !.frequency   = OrElse(data.frequency, @),
            !.endDate     = OrElse(data.endDate, @),
            !.isActive    = OrElse(data.isActive, @),
            !.nextDueDate = IF Has(data.frequency) THEN r.startDate ELSE @]

\* recurrence.update({ where: { id }, data }): undefined fields are left alone;
\* endDate is undefined (<<>>), null (<< <<>> >>) or a date (<< <<date>> >>)
recurrenceData(r, data) ==
  [r EXCEPT !.categoryId  = OrElse(data.categoryId, @),
            !.amount      = OrElse(data.amount, @),
            !.type        = OrElse(data.type, @),
            !.description = IF Has(data.description) THEN data.description ELSE @,
            !.frequency   = OrElse(data.frequency, @),
            !.endDate     = OrElse(data.endDate, @),
            !.isActive    = OrElse(data.isActive, @)]

\* the checks of recurrence.update before its write: "ok" or the error thrown
recurrenceUpdateCheck(d, uid, input) ==
  IF recurrenceFindFirst(d, uid, input.id) = {} THEN "NOT_FOUND"
  ELSE IF Has(input.categoryId) /\ ~categoryFound(uid, input.categoryId[1])
    THEN "NOT_FOUND"
  ELSE "ok"

recurrenceUpdate(uid, input) ==
  /\ IF recurrenceUpdateCheck(db, uid, input) # "ok"
       THEN /\ last' = Done("recurrence.update", "NOT_FOUND", 0)
            /\ UNCHANGED db
       ELSE /\ db' = [db EXCEPT !.recurrences =
                        { IF r.id = input.id THEN recurrenceData(r, input) ELSE r :
                          r \in @ }]
            /\ last' = Done("recurrence.update", "ok", 0)
  /\ UNCHANGED <<now, reqs>>

\* recurrence.delete; Transaction.recurrenceId is ON DELETE SET NULL
recurrenceDelete(uid, input) ==
  /\ IF recurrenceFindFirst(db, uid, input.id) = {}
       THEN /\ last' = Done("recurrence.delete", "NOT_FOUND", 0)
            /\ UNCHANGED db
       ELSE /\ db' = [db EXCEPT
                        !.recurrences = { r \in @ : r.id # input.id },
                        !.transactions =
                          { IF t.recurrenceId = Some(input.id)
                              THEN [t EXCEPT !.recurrenceId = None] ELSE t :
                            t \in @ }]
            /\ last' = Done("recurrence.delete", "ok", 0)
  /\ UNCHANGED <<now, reqs>>

\* (mutant) the recurrences past their endDate are selected too
dueRecurrencesIgnoringEnd(d, uid, at) ==
  { r \in d.recurrences :
      r.userId = uid /\ r.isActive /\ DateLE(r.nextDueDate, at) }

\* recurrence.findMany({ where: { userId, isActive: true, nextDueDate: { lte: now },
\*                                OR: [{ endDate: null }, { endDate: { gte: now } }] } })
dueRecurrences(d, uid, at) ==
  { r \in d.recurrences :
      /\ r.userId = uid
      /\ r.isActive
      /\ DateLE(r.nextDueDate, at)
      /\ (r.endDate = None \/ DateLE(at, r.endDate[1])) }

\* the rows of a findMany as an array (in the order of their ids)
RECURSIVE RowsById(_)
RowsById(rows) ==
  IF rows = {} THEN <<>>
  ELSE LET r == CHOOSE x \in rows : \A y \in rows : x.id <= y.id
       IN  <<r>> \o RowsById(rows \ {r})

\* (mutant) the recurrence is switched off when its next due date reaches the endDate
recurrenceStmtsInclusiveEnd(uid, recurrence) ==
  <<StmtTxCreate([userId |-> uid, categoryId |-> recurrence.categoryId,
                  amount |-> recurrence.amount, type |-> recurrence.type,
                  description |-> recurrence.description,
                  date |-> recurrence.nextDueDate,
                  recurrenceId |-> Some(recurrence.id)])>>
  \o (IF recurrence.type = EXPENSE
        THEN <<StmtBudget(uid, recurrence.categoryId,
                          getMonth(recurrence.nextDueDate) + 1,
                          getFullYear(recurrence.nextDueDate), recurrence.amount)>>
        ELSE <<>>)
  \o <<StmtRecUpdate(recurrence.id,
                     calculateNextDueDate(recurrence.nextDueDate, recurrence.frequency),
                     ~(Has(recurrence.endDate) /\
                       DateLE(recurrence.endDate[1],
                              calculateNextDueDate(recurrence.nextDueDate,
                                                   recurrence.frequency))))>>

\* the first due date after the instant at, from date on
RECURSIVE firstDueAfter(_, _, _)
firstDueAfter(date, frequency, at) ==
  IF DateGT(date, at) THEN date
  ELSE firstDueAfter(calculateNextDueDate(date, frequency), frequency, at)

\* (mutant) the recurrence is moved past now in one call, with one transaction
recurrenceStmtsFastForward(uid, recurrence) ==
  <<StmtTxCreate([userId |-> uid, categoryId |-> recurrence.categoryId,
                  amount |-> recurrence.amount, type |-> recurrence.type,
                  description |-> recurrence.description,
                  date |-> recurrence.nextDueDate,
                  recurrenceId |-> Some(recurrence.id)])>>
  \o (IF recurrence.type = EXPENSE
        THEN <<StmtBudget(uid, recurrence.categoryId,
                          getMonth(recurrence.nextDueDate) + 1,
                          getFullYear(recurrence.nextDueDate), recurrence.amount)>>
        ELSE <<>>)
  \o <<StmtRecUpdate(recurrence.id,
                     firstDueAfter(recurrence.nextDueDate, recurrence.frequency, now),
                     ~(Has(recurrence.endDate) /\
                       DateGT(firstDueAfter(recurrence.nextDueDate,
                                            recurrence.frequency, now),
                              recurrence.endDate[1])))>>

\* (mutant) the generated transaction is dated at the time of processing
recurrenceStmtsDatedNow(uid, recurrence) ==
  <<StmtTxCreate([userId |-> uid, categoryId |-> recurrence.categoryId,
                  amount |-> recurrence.amount, type |-> recurrence.type,
                  description |-> recurrence.description,
                  date |-> now, recurrenceId |-> Some(recurrence.id)])>>
  \o (IF recurrence.type = EXPENSE
        THEN <<StmtBudget(uid, recurrence.categoryId, getMonth(now) + 1,
                          getFullYear(now), recurrence.amount)>>
        ELSE <<>>)
  \o <<StmtRecUpdate(recurrence.id,
                     calculateNextDueDate(recurrence.nextDueDate, recurrence.frequency),
                     ~(Has(recurrence.endDate) /\
                       DateGT(calculateNextDueDate(recurrence.nextDueDate,
                                                   recurrence.frequency),
                              recurrence.endDate[1])))>>

\* one turn of the loop of processDue, for a recurrence as it was read
recurrenceStmts(uid, recurrence) ==
  <<StmtTxCreate([userId |-> uid, categoryId |-> recurrence.categoryId,
                  amount |-> recurrence.amount, type |-> recurrence.type,
                  description |-> recurrence.description,
                  date |-> recurrence.nextDueDate,
                  recurrenceId |-> Some(recurrence.id)])>>
  \o (IF recurrence.type = EXPENSE
        THEN <<StmtBudget(uid, recurrence.categoryId,
                          getMonth(recurrence.nextDueDate) + 1,
                          getFullYear(recurrence.nextDueDate), recurrence.amount)>>
        ELSE <<>>)
  \o <<StmtRecUpdate(recurrence.id,
                     calculateNextDueDate(recurrence.nextDueDate, recurrence.frequency),
                     ~(Has(recurrence.endDate) /\
                       DateGT(calculateNextDueDate(recurrence.nextDueDate,
                                                   recurrence.frequency),
                              recurrence.endDate[1])))>>

\* the callback of processDue: the loop over the recurrences read before it
RECURSIVE processDueStmts(_, _)
processDueStmts(uid, dueSeq) ==
  IF dueSeq = <<>> THEN <<>>
  ELSE recurrenceStmts(uid, dueSeq[1]) \o processDueStmts(uid, Tail(dueSeq))

recurrenceProcessDue(uid) ==
  /\ \E due \in {RowsById(dueRecurrences(db, uid, now))} :
       /\ db.nextTxId + Len(due) - 1 <= MaxTx + MaxGen
       /\ \E r \in {runTransaction(db, processDueStmts(uid, due))} :
            /\ db' = r.db
            /\ last' = Done("recurrence.processDue",
                            IF r.ok THEN "ok" ELSE "error",
                            IF r.ok THEN Len(due) ELSE 0)
  /\ UNCHANGED <<now, reqs>>

\* processDue as two steps of a request: the findMany of the due recurrences
\* runs on ctx.prisma before $transaction is entered
processDueRead(client, uid) ==
  /\ Idle(client)
  /\ \E due \in {RowsById(dueRecurrences(db, uid, now))} :
       /\ db.nextTxId + Len(due) - 1 <= MaxTx + MaxGen
       /\ reqs' = reqs \cup {Request(client, "recurrence.processDue", uid, None, due)}
  /\ UNCHANGED <<db, now, last>>

processDueCommit(client) ==
  /\ \E q \in reqs :
       /\ q.client = client /\ q.op = "recurrence.processDue"
       /\ db.nextTxId + Len(q.existing) - 1 <= MaxTx + MaxGen
       /\ \E r \in {runTransaction(db, processDueStmts(q.uid, q.existing))} :
            /\ db' = r.db
            /\ last' = Done("recurrence.processDue",
                            IF r.ok THEN "ok" ELSE "error",
                            IF r.ok THEN Len(q.existing) ELSE 0)
       /\ reqs' = reqs \ {q}
  /\ UNCHANGED now

\* processDue with its batch statement by statement
processDueBegin(uid) ==
  /\ reqs = {}
  /\ \E due \in {RowsById(dueRecurrences(db, uid, now))} :
       /\ db.nextTxId + Len(due) - 1 <= MaxTx + MaxGen
       /\ reqs' = {Callback("recurrence.processDue", processDueStmts(uid, due))}
  /\ UNCHANGED <<db, now, last>>

\* the instants at which requests arrive
\* milliseconds of a day
MsPerDay == 86400000

\* Math.ceil(a / b) for b > 0
ceilDiv(a, b) == -((-a) \div b)

\* Math.ceil((a.getTime() - b.getTime()) / (1000 * 60 * 60 * 24)), where
\* getTime() is day * MsPerDay + ms: the whole days are taken out of the
\* quotient before the division
daysUntil(a, b) == (a.day - b.day) + ceilDiv(a.ms - b.ms, MsPerDay)

\* recurrence.findMany({ where: { userId, isActive: true, nextDueDate: { lte:
\* futureDate } } }), each row with its daysUntilDue
getUpcoming(d, uid, at, days) ==
  LET futureDate == setDate(at, getDate(at) + days)
  IN  { [row |-> r,
         daysUntilDue |-> daysUntil(r.nextDueDate, at)] :
        r \in { x \in d.recurrences :
                  /\ x.userId = uid
                  /\ x.isActive
                  /\ DateLE(x.nextDueDate, futureDate) } }

\* the query changes no row; its answer has last.n rows
recurrenceGetUpcoming(uid, input) ==
  /\ last' = Done("recurrence.getUpcoming", "ok",
                  Cardinality(getUpcoming(db, uid, now, input.days)))
  /\ UNCHANGED <<db, now, reqs>>

Clock == <<Day(2024, 1, 1), Day(2024, 2, 1), Day(2024, 3, 1)>>

\* the server clock moves on
Tick ==
  /\ \E i \in 1 .. Len(Clock) - 1 : now = Clock[i] /\ now' = Clock[i + 1]
  /\ UNCHANGED <<db, last, reqs>>

----------------------------------------------------------------------------
(* Inputs of the requests *)

OwnCategories == {"food", "fun"}        \* the categories of u1
TxDates == {Day(2024, 6, 5), Day(2024, 7, 5)}
BudgetMonths == {[month |-> 6, year |-> 2024], [month |-> 7, year |-> 2024]}
Amounts == {50, 70}
Opt(S) == {None} \cup {Some(v) : v \in S}

CreateInputs(cats, descriptions) ==
  [categoryId : cats, amount : Amounts, type : TransactionType,
   description : descriptions, date : TxDates]

UpdateInputs(cats, amounts, types, descriptions, dates) ==
  [id : 1 .. MaxTx, categoryId : cats, amount : amounts,
   type : types, description : descriptions, date : dates]

DeleteInputs == [id : 1 .. MaxTx]

GetOrCreateInputs(cats, months) ==
  { [categoryId |-> c, month |-> k.month, year |-> k.year, amount |-> 400] :
      c \in cats, k \in months }

GetOrCreateInputsWith(cats, months, amounts) ==
  { [categoryId |-> c, month |-> k.month, year |-> k.year, amount |-> a] :
      c \in cats, k \in months, a \in amounts }

RecurrenceMonths == {[month |-> 1, year |-> 2024], [month |-> 2, year |-> 2024]}

RecurrenceInputs(cats, types, frequencies, ends) ==
  [categoryId : cats, amount : {1599}, type : types, description : {None},
   frequency : frequencies, startDate : {Day(2024, 1, 1)}, endDate : ends]

RecurrenceUpdateInputs(cats, amounts, types, descriptions, frequencies, ends, actives) ==
  [id : 1 .. MaxRec, categoryId : cats, amount : amounts, type : types,
   description : descriptions, frequency : frequencies, endDate : ends,
   isActive : actives]

\* the user switches a recurrence off
DeactivateInputs ==
  RecurrenceUpdateInputs({None}, {None}, {None}, {None}, {None}, {None}, {Some(FALSE)})

StartClock == Clock[1]

Init ==
  /\ db = EmptyDb
  /\ now = StartClock
  /\ last = Done("init", "ok", 0)
  /\ reqs = {}

----------------------------------------------------------------------------
(* The ledger: the transaction mutations of one user over budgeted and      *)
(* unbudgeted keys, executed one request after the other                    *)

NextLedger ==
  \/ \E input \in CreateInputs(OwnCategories, {None}) :
       transactionCreate("u1", input)
  \/ \E input \in UpdateInputs(Opt(OwnCategories), Opt(Amounts),
                               Opt(TransactionType), {None}, Opt(TxDates)) :
       transactionUpdate("u1", input)
  \/ \E input \in DeleteInputs : transactionDelete("u1", input)
  \/ \E input \in GetOrCreateInputs(OwnCategories, BudgetMonths) : budgetGetOrCreate("u1", input)

SpecLedger == Init /\ [][NextLedger]_vars

----------------------------------------------------------------------------
(* The same ledger where every update supplies the description and nothing  *)
(* else; rows are created without a description                             *)

DescriptionOnlyInputs ==
  UpdateInputs({None}, {None}, {None}, {Some("memo")}, {None})

NextDesc ==
  \/ \E input \in CreateInputs(OwnCategories, {None}) :
       transactionCreate("u1", input)
  \/ \E input \in DescriptionOnlyInputs : transactionUpdate("u1", input)
  \/ \E input \in DeleteInputs : transactionDelete("u1", input)
  \/ \E input \in GetOrCreateInputs(OwnCategories, BudgetMonths) : budgetGetOrCreate("u1", input)

SpecDesc == Init /\ [][NextDesc]_vars

----------------------------------------------------------------------------
(* Concurrent writers: update and delete requests of two clients overlap    *)

ConcUpdateInputs ==
  UpdateInputs(Opt({"fun"}), Opt({70}), {None}, {None}, {None})

ConcMonths == {[month |-> 6, year |-> 2024]}

ConcCreateInputs ==
  { input \in CreateInputs({"food"}, {None}) :
      input.type = EXPENSE /\ input.date = Day(2024, 6, 5) }

NextConc ==
  \/ \E input \in ConcCreateInputs :
       /\ Idle("c1") /\ Idle("c2")
       /\ transactionCreate("u1", input)
  \/ \E input \in GetOrCreateInputs(OwnCategories, ConcMonths) :
       /\ Idle("c1") /\ Idle("c2")
       /\ budgetGetOrCreate("u1", input)
  \/ \E client \in Clients, input \in ConcUpdateInputs :
       transactionUpdateRead(client, "u1", input)
  \/ \E client \in Clients : transactionUpdateCommit(client)
  \/ \E client \in Clients, input \in DeleteInputs :
       transactionDeleteRead(client, "u1", input)
  \/ \E client \in Clients : transactionDeleteCommit(client)

SpecConc == Init /\ [][NextConc]_vars

----------------------------------------------------------------------------
(* Crashes: one request at a time, its transaction statement by statement   *)

CrashUpdateInputs ==
  UpdateInputs(Opt({"fun"}), Opt({70}), Opt(TransactionType), {None}, {None})

CrashCreateInputs ==
  { input \in CreateInputs({"food"}, {None}) : input.date = Day(2024, 6, 5) }

NextCrash ==
  \/ \E input \in CrashCreateInputs : transactionCreateBegin("u1", input)
  \/ \E input \in CrashUpdateInputs : transactionUpdateBegin("u1", input)
  \/ \E input \in DeleteInputs : transactionDeleteBegin("u1", input)
  \/ callbackStep
  \/ callbackCommit
  \/ callbackAbort
  \/ \E input \in GetOrCreateInputs(OwnCategories, ConcMonths) :
       /\ reqs = {}
       /\ budgetGetOrCreate("u1", input)

SpecCrash == Init /\ [][NextCrash]_vars

----------------------------------------------------------------------------
(* The recurrence processor: recurrences are created and processDue runs,   *)
(* one request after the other, as the clock moves on                       *)

NextRecur ==
  \/ \E input \in RecurrenceInputs({"food"}, TransactionType,
                                    RecurrenceFrequency, {None}) :
       recurrenceCreate("u1", input)
  \/ recurrenceProcessDue("u1")
  \/ Tick
  \/ \E input \in GetOrCreateInputs({"food"}, RecurrenceMonths) :
       budgetGetOrCreate("u1", input)

SpecRecur == Init /\ [][NextRecur]_vars

----------------------------------------------------------------------------
(* Overlapping processDue requests of the same user                         *)

NextProcConc ==
  \/ \E input \in RecurrenceInputs({"food"}, {EXPENSE}, {WEEKLY, MONTHLY}, {None}) :
       /\ reqs = {}
       /\ recurrenceCreate("u1", input)
  \/ \E client \in Clients : processDueRead(client, "u1")
  \/ \E client \in Clients : processDueCommit(client)
  \/ Tick
  \/ \E input \in GetOrCreateInputs({"food"}, RecurrenceMonths) :
       /\ reqs = {}
       /\ budgetGetOrCreate("u1", input)

SpecProcConc == Init /\ [][NextProcConc]_vars

----------------------------------------------------------------------------
(* The processDue batch statement by statement, with failures               *)

NextBatch ==
  \/ \E input \in RecurrenceInputs({"food"}, TransactionType, {WEEKLY, MONTHLY}, {None}) :
       /\ reqs = {}
       /\ recurrenceCreate("u1", input)
  \/ processDueBegin("u1")
  \/ callbackStep
  \/ callbackCommit
  \/ callbackAbort
  \/ Tick
  \/ \E input \in GetOrCreateInputs({"food"}, RecurrenceMonths) :
       /\ reqs = {}
       /\ budgetGetOrCreate("u1", input)

SpecBatch == Init /\ [][NextBatch]_vars

----------------------------------------------------------------------------
(* All the public operations, one request after the other                   *)

SpecMonths == RecurrenceMonths

SpecCreateInputs ==
  [categoryId : {"food"}, amount : {50}, type : {EXPENSE}, description : {None},
   date : {Day(2024, 2, 5)}]

SpecUpdateInputs == UpdateInputs({None}, Opt({70}), Opt({INCOME}), {None}, {None})

BudgetIds ==
  { [userId |-> "u1", key |-> [categoryId |-> "food", month |-> k.month, year |-> k.year]] :
      k \in SpecMonths }

NextAll ==
  \/ \E input \in SpecCreateInputs : transactionCreate("u1", input)
  \/ \E input \in SpecUpdateInputs : transactionUpdate("u1", input)
  \/ \E input \in DeleteInputs : transactionDelete("u1", input)
  \/ \E input \in GetOrCreateInputs({"food"}, SpecMonths) :
       budgetGetOrCreate("u1", input)
  \/ \E input \in [id : BudgetIds, amount : {300}] : budgetUpdate("u1", input)
  \/ \E input \in [id : BudgetIds] : budgetDelete("u1", input)
  \/ \E k \in SpecMonths :
       budgetCopyFromPreviousMonth("u1", [targetMonth |-> k.month, targetYear |-> k.year])
  \/ \E input \in SpecMonths : budgetRecalculateSpent("u1", input)
  \/ \E input \in RecurrenceInputs({"food"}, {EXPENSE}, {MONTHLY}, {None}) :
       recurrenceCreate("u1", input)
  \/ recurrenceProcessDue("u1")
  \/ Tick

Spec == Init /\ [][NextAll]_vars

----------------------------------------------------------------------------
(* The writers of the ledger next to budgets that exist or not: the         *)
(* transaction mutations and processDue, one request after the other        *)

OptInCreateInputs ==
  [categoryId : {"food"}, amount : {50}, type : TransactionType,
   description : {None}, date : {Day(2024, 1, 5), Day(2024, 2, 5)}]

OptInUpdateInputs ==
  UpdateInputs({None}, Opt({70}), Opt({EXPENSE}), {None}, Opt({Day(2024, 2, 5)}))

NextOptIn ==
  \/ \E input \in OptInCreateInputs : transactionCreate("u1", input)
  \/ \E input \in OptInUpdateInputs : transactionUpdate("u1", input)
  \/ \E input \in DeleteInputs : transactionDelete("u1", input)
  \/ \E input \in RecurrenceInputs({"food"}, {EXPENSE}, {MONTHLY}, {None}) :
       /\ db.recurrences = {}
       /\ recurrenceCreate("u1", input)
  \/ recurrenceProcessDue("u1")
  \/ Tick
  \/ \E input \in GetOrCreateInputs({"food"}, RecurrenceMonths) :
       budgetGetOrCreate("u1", input)

SpecOptIn == Init /\ [][NextOptIn]_vars

----------------------------------------------------------------------------
(* Recurrences with an end: created with or without endDate, processed as   *)
(* the clock moves on, one request after the other                          *)

EndDates == {None, Some(Day(2024, 1, 20)), Some(Day(2024, 2, 1))}

NextEnd ==
  \/ \E input \in RecurrenceInputs({"food"}, {EXPENSE}, {WEEKLY, MONTHLY}, EndDates) :
       recurrenceCreate("u1", input)
  \/ recurrenceProcessDue("u1")
  \/ Tick

SpecEnd == Init /\ [][NextEnd]_vars

----------------------------------------------------------------------------
(* processDue requests overlapping with the user's recurrence.update        *)

NextReact ==
  \/ \E input \in RecurrenceInputs({"food"}, {EXPENSE}, {WEEKLY, MONTHLY}, {None}) :
       /\ reqs = {}
       /\ recurrenceCreate("u1", input)
  \/ \E input \in DeactivateInputs : recurrenceUpdate("u1", input)
  \/ \E client \in Clients : processDueRead(client, "u1")
  \/ \E client \in Clients : processDueCommit(client)
  \/ Tick

SpecReact == Init /\ [][NextReact]_vars

----------------------------------------------------------------------------
(* The periodic job: processDue is invoked again and again, and the clock   *)
(* moves on only when a call has found nothing more to do                   *)

NextEndLive ==
  \/ \E input \in RecurrenceInputs({"food"}, {EXPENSE}, {WEEKLY, MONTHLY}, EndDates) :
       recurrenceCreate("u1", input)
  \/ recurrenceProcessDue("u1")
  \/ /\ dueRecurrences(db, "u1", now) = {}
     /\ Tick

SpecEndLive ==
  /\ Init /\ [][NextEndLive]_vars
  /\ WF_vars(recurrenceProcessDue("u1"))
  /\ WF_vars(dueRecurrences(db, "u1", now) = {} /\ Tick)

----------------------------------------------------------------------------
(* Catch-up: a recurrence is created when its start lies in the past, the   *)
(* clock stands still from then on, and processDue is invoked repeatedly    *)

NextCatchUp ==
  \/ /\ db.recurrences = {}
     /\ Tick
  \/ \E input \in RecurrenceInputs({"food"}, TransactionType, {MONTHLY, QUARTERLY},
                                    {None, Some(Day(2024, 3, 1))}) :
       /\ db.recurrences = {}
       /\ recurrenceCreate("u1", input)
  \/ recurrenceProcessDue("u1")
  \/ \E input \in GetOrCreateInputs({"food"}, RecurrenceMonths) :
       budgetGetOrCreate("u1", input)

SpecCatchUp ==
  /\ Init /\ [][NextCatchUp]_vars
  /\ WF_vars(recurrenceProcessDue("u1"))

----------------------------------------------------------------------------
(* The budget operations that compute spent from the transactions           *)

BudgetCreateInputs ==
  [categoryId : {"food"}, amount : {50}, type : TransactionType, description : {None},
   date : {LastSecond(2024, 1, 31), Day(2024, 2, 5)}]

\* "rent" is a category of another user, "nocat" is no category at all
BudgetInputs ==
  GetOrCreateInputsWith({"food", "rent", "nocat"}, RecurrenceMonths, {400, 500})

NextBudget ==
  \/ \E input \in BudgetCreateInputs : transactionCreate("u1", input)
  \/ \E input \in DeleteInputs : transactionDelete("u1", input)
  \/ \E input \in BudgetInputs : budgetGetOrCreate("u1", input)
  \/ \E input \in GetOrCreateInputsWith({"rent"}, RecurrenceMonths, {400}) :
       budgetGetOrCreate("u2", input)
  \/ budgetCopyFromPreviousMonth("u1", [targetMonth |-> 2, targetYear |-> 2024])
  \/ \E input \in RecurrenceMonths : budgetRecalculateSpent("u1", input)

SpecBudget == Init /\ [][NextBudget]_vars

----------------------------------------------------------------------------
(* Copying budgets across the turn of the year                              *)

CopyMonths == {[month |-> 12, year |-> 2023], [month |-> 1, year |-> 2024]}

CopyTargets ==
  { [targetMonth |-> k.month, targetYear |-> k.year] :
      k \in {[month |-> 1, year |-> 2024], [month |-> 2, year |-> 2024]} }

CopyCreateInputs ==
  [categoryId : {"food"}, amount : {50}, type : {EXPENSE}, description : {None},
   date : {Day(2023, 12, 5), Day(2024, 1, 5)}]

NextCopy ==
  \/ \E input \in CopyCreateInputs : transactionCreate("u1", input)
  \/ \E input \in GetOrCreateInputsWith({"food"}, CopyMonths, {400, 500}) :
       budgetGetOrCreate("u1", input)
  \/ \E input \in GetOrCreateInputsWith({"fun"}, {[month |-> 12, year |-> 2023]}, {400}) :
       budgetGetOrCreate("u1", input)
  \/ \E input \in CopyTargets : budgetCopyFromPreviousMonth("u1", input)

SpecCopy == Init /\ [][NextCopy]_vars

----------------------------------------------------------------------------
(* Requests of two users with ids and categories that are missing or not    *)
(* theirs, next to requests that succeed                                    *)

AnyCategory == {"food", "rent", "nocat"}

NotFoundCreateInputs ==
  [categoryId : AnyCategory, amount : {50}, type : {EXPENSE}, description : {None},
   date : {Day(2024, 1, 5)}]

NotFoundUpdateInputs ==
  UpdateInputs(Opt({"rent", "nocat"}), {None}, {None}, {None}, {None})

NotFoundRecurrenceInputs ==
  RecurrenceInputs(AnyCategory, {EXPENSE}, {MONTHLY}, {None})

NotFoundRecurrenceUpdateInputs ==
  RecurrenceUpdateInputs(Opt({"rent", "nocat"}), {None}, {None}, {None}, {None}, {None},
                         Opt({FALSE}))

NextNotFound ==
  \/ \E uid \in Users, input \in NotFoundCreateInputs : transactionCreate(uid, input)
  \/ \E uid \in Users, input \in NotFoundUpdateInputs : transactionUpdate(uid, input)
  \/ \E uid \in Users, input \in DeleteInputs : transactionDelete(uid, input)
  \/ \E uid \in Users, input \in NotFoundRecurrenceInputs :
       /\ db.recurrences = {}
       /\ recurrenceCreate(uid, input)
  \/ \E uid \in Users, input \in NotFoundRecurrenceUpdateInputs :
       recurrenceUpdate(uid, input)
  \/ \E uid \in Users, input \in [id : 1 .. MaxRec] : recurrenceDelete(uid, input)
  \/ \E input \in GetOrCreateInputs({"food"}, {[month |-> 1, year |-> 2024]}) :
       budgetGetOrCreate("u1", input)
  \/ \E input \in CopyTargets : budgetCopyFromPreviousMonth("u1", input)

SpecNotFound == Init /\ [][NextNotFound]_vars

----------------------------------------------------------------------------
(* Two users side by side: each issues every operation, with its own ids    *)
(* and categories and with those of the other user                          *)

IsoCategories == {"food", "rent"}
IsoMonth == [month |-> 1, year |-> 2024]

IsoCreateInputs ==
  [categoryId : IsoCategories, amount : {50}, type : {EXPENSE}, description : {None},
   date : {Day(2024, 1, 5)}]

IsoUpdateInputs == UpdateInputs({None}, {Some(70)}, {None}, {None}, {None})

IsoBudgetIds ==
  { [userId |-> u, key |-> [categoryId |-> c, month |-> IsoMonth.month,
                            year |-> IsoMonth.year]] :
      u \in Users, c \in IsoCategories }

IsoRecurrenceInputs == RecurrenceInputs(IsoCategories, {EXPENSE}, {MONTHLY}, {None})

IsoCopyTarget == [targetMonth |-> 2, targetYear |-> 2024]

\* the operations invoked as uid
InvokedAs(uid) ==
  \/ \E input \in IsoCreateInputs : transactionCreate(uid, input)
  \/ \E input \in IsoUpdateInputs : transactionUpdate(uid, input)
  \/ \E input \in DeleteInputs : transactionDelete(uid, input)
  \/ \E input \in GetOrCreateInputs(IsoCategories, {IsoMonth}) :
       budgetGetOrCreate(uid, input)
  \/ \E input \in [id : IsoBudgetIds, amount : {300}] : budgetUpdate(uid, input)
  \/ \E input \in [id : IsoBudgetIds] : budgetDelete(uid, input)
  \/ budgetCopyFromPreviousMonth(uid, IsoCopyTarget)
  \/ budgetRecalculateSpent(uid, IsoMonth)
  \/ \E input \in IsoRecurrenceInputs :
       /\ \A r \in db.recurrences : r.userId # uid
       /\ db.nextRecId = Cardinality(db.recurrences) + 1    \* none deleted so far
       /\ recurrenceCreate(uid, input)
  \/ \E input \in DeactivateInputs : recurrenceUpdate(uid, input)
  \/ \E input \in [id : 1 .. MaxRec] : recurrenceDelete(uid, input)
  \/ recurrenceProcessDue(uid)

\* the other user builds rows of every kind, one after the other: a
\* transaction, a recurrence, its first occurrence, a budget
Builds(uid) ==
  \/ \E input \in IsoCreateInputs :
       /\ db.transactions = {}
       /\ transactionCreate(uid, input)
  \/ \E input \in IsoRecurrenceInputs :
       /\ db.transactions # {} /\ db.recurrences = {}
       /\ recurrenceCreate(uid, input)
  \/ /\ dueRecurrences(db, uid, now) # {}
     /\ recurrenceProcessDue(uid)
  \/ \E input \in GetOrCreateInputs(IsoCategories, {IsoMonth}) :
       /\ \E t \in db.transactions : Has(t.recurrenceId)
       /\ db.budgets = {}
       /\ budgetGetOrCreate(uid, input)

\* u2 builds its rows before u1 has any
NextIso ==
  \/ InvokedAs("u1")
  \/ /\ \A t \in db.transactions : t.userId # "u1"
     /\ \A b \in db.budgets : b.userId # "u1"
     /\ \A r \in db.recurrences : r.userId # "u1"
     /\ Builds("u2")

SpecIso == Init /\ [][NextIso]_vars

----------------------------------------------------------------------------
(* calculateNextDueDate on its own: calls on dates at month and year ends,  *)
(* in leap and common years, at midnight and late in the day, and on the    *)
(* dates earlier calls returned                                              *)

DueDates ==
  {Day(2023, 12, 31), Day(2024, 1, 15), Day(2024, 1, 31), Day(2024, 2, 29),
   LastSecond(2024, 2, 28), Day(2024, 11, 30), Day(2024, 12, 25),
   LastSecond(2025, 1, 30)}

\* calls are made on dates up to here
DueHorizon == Day(2026, 3, 1)

\* one call: reqs records the argument, the frequency and the returned date
nextDueDateCall(currentDate, frequency) ==
  /\ DateLE(currentDate, DueHorizon)
  /\ reqs' = {[op |-> "calculateNextDueDate", currentDate |-> currentDate,
               frequency |-> frequency,
               next |-> calculateNextDueDate(currentDate, frequency)]}
  /\ last' = Done("calculateNextDueDate", "ok", 0)
  /\ UNCHANGED <<db, now>>

NextDue ==
  \/ \E d \in DueDates, f \in RecurrenceFrequency : nextDueDateCall(d, f)
  \/ \E q \in reqs, f \in RecurrenceFrequency : nextDueDateCall(q.next, f)

SpecDue == Init /\ [][NextDue]_vars

----------------------------------------------------------------------------
(* A recurrence that is created, edited in every field, processed and       *)
(* deleted while the clock moves on                                          *)

FrameStartDates == {Day(2024, 1, 1), Day(2024, 1, 15)}

FrameRecurrenceInputs ==
  [categoryId : {"food"}, amount : {1599}, type : {EXPENSE}, description : {None},
   frequency : {MONTHLY}, startDate : FrameStartDates, endDate : {None}]

\* an update with no field, the fields of the schedule one by one, the other
\* fields together, and all the fields at once
FrameNoChange(id) ==
  [id |-> id, categoryId |-> None, amount |-> None, type |-> None,
   description |-> None, frequency |-> None, endDate |-> None, isActive |-> None]

FrameContent(input) ==
  [input EXCEPT !.categoryId = Some("fun"), !.amount = Some(999),
                !.type = Some(INCOME), !.description = Some("gym")]

FrameUpdateInputs ==
  UNION { { FrameNoChange(id),
            [FrameNoChange(id) EXCEPT !.frequency = Some(WEEKLY)],
            [FrameNoChange(id) EXCEPT !.endDate = Some(Some(Day(2024, 2, 20)))],
            [FrameNoChange(id) EXCEPT !.isActive = Some(FALSE)],
            [FrameNoChange(id) EXCEPT !.isActive = Some(TRUE)],
            FrameContent(FrameNoChange(id)),
            FrameContent([FrameNoChange(id) EXCEPT
                            !.frequency = Some(WEEKLY),
                            !.endDate = Some(Some(Day(2024, 2, 20))),
                            !.isActive = Some(TRUE)]) } : id \in 1 .. MaxRec }

NextFrame ==
  \/ \E input \in FrameRecurrenceInputs :
       /\ db.nextRecId = 1                  \* the first recurrence only
       /\ recurrenceCreate("u1", input)
  \/ \E input \in FrameUpdateInputs : recurrenceUpdate("u1", input)
  \/ \E input \in [id : 1 .. MaxRec] : recurrenceDelete("u1", input)
  \/ recurrenceProcessDue("u1")
  \/ Tick

SpecFrame == Init /\ [][NextFrame]_vars

----------------------------------------------------------------------------
(* Budget recomputations that overlap with transaction mutations            *)

RecomputeCreateInputs ==
  [categoryId : OwnCategories, amount : {50}, type : {EXPENSE}, description : {None},
   date : {Day(2024, 6, 5)}]

NextRecompute ==
  \/ \E input \in RecomputeCreateInputs : transactionCreate("u1", input)
  \/ \E input \in DeleteInputs : transactionDelete("u1", input)
  \/ \E client \in Clients, input \in GetOrCreateInputs(OwnCategories, ConcMonths) :
       budgetGetOrCreateRead(client, "u1", input)
  \/ \E client \in Clients : budgetGetOrCreateCommit(client)
  \/ \E client \in Clients, input \in ConcMonths :
       budgetRecalculateRead(client, "u1", input)
  \/ \E client \in Clients : budgetRecalculateWrite(client)

SpecRecompute == Init /\ [][NextRecompute]_vars

----------------------------------------------------------------------------
(* Recurrences with and without an end date, looked at with getUpcoming and *)
(* processed, while the clock moves on                                      *)

UpcomingDays == {1, 30}

NextUpcoming ==
  \/ \E input \in RecurrenceInputs({"food"}, {EXPENSE}, {WEEKLY, MONTHLY}, EndDates) :
       recurrenceCreate("u1", input)
  \/ \E input \in [days : UpcomingDays] : recurrenceGetUpcoming("u1", input)
  \/ recurrenceProcessDue("u1")
  \/ Tick

SpecUpcoming == Init /\ [][NextUpcoming]_vars

----------------------------------------------------------------------------
(* A recurrence with an end date that is processed, switched off and on by  *)
(* its user, given another end date or none, and processed again            *)

ReactivateRecurrenceInputs ==
  [categoryId : {"food"}, amount : {1599}, type : {EXPENSE}, description : {None},
   frequency : {WEEKLY, MONTHLY}, startDate : FrameStartDates, endDate : EndDates]

ReactivateInputs ==
  UNION { { [FrameNoChange(id) EXCEPT !.isActive = Some(TRUE)],
            [FrameNoChange(id) EXCEPT !.isActive = Some(FALSE)],
            [FrameNoChange(id) EXCEPT !.endDate = Some(Some(Day(2024, 2, 1)))],
            [FrameNoChange(id) EXCEPT !.endDate = Some(None)] } : id \in 1 .. MaxRec }

NextReactivate ==
  \/ \E input \in ReactivateRecurrenceInputs :
       /\ db.nextRecId = 1                  \* the first recurrence only
       /\ recurrenceCreate("u1", input)
  \/ \E input \in ReactivateInputs : recurrenceUpdate("u1", input)
  \/ recurrenceProcessDue("u1")
  \/ Tick

SpecReactivate == Init /\ [][NextReactivate]_vars

----------------------------------------------------------------------------
(* One recurrence of any frequency, from the first or the last day of a     *)
(* month, processed again and again while the clock moves on                *)

ForwardRecurrenceInputs ==
  [categoryId : {"food"}, amount : {1599}, type : {EXPENSE}, description : {None},
   frequency : RecurrenceFrequency, startDate : {Day(2024, 1, 1), Day(2024, 1, 31)},
   endDate : {None}]

NextForward ==
  \/ \E input \in ForwardRecurrenceInputs :
       /\ db.nextRecId = 1                  \* the first recurrence only
       /\ recurrenceCreate("u1", input)
  \/ recurrenceProcessDue("u1")
  \/ Tick

SpecForward == Init /\ [][NextForward]_vars

----------------------------------------------------------------------------
(* Vocabulary of the properties *)

\* the (categoryId, month, year) key a transaction's date puts it in
KeyOfTx(t) ==
  [categoryId |-> t.categoryId, month |-> getMonth(t.date) + 1,
   year |-> getFullYear(t.date)]

KeyOfBudget(b) == [categoryId |-> b.categoryId, month |-> b.month, year |-> b.year]

\* the surviving EXPENSE transactions of a budget's key
ExpensesOf(d, b) ==
  { t \in d.transactions :
      t.userId = b.userId /\ t.type = EXPENSE /\ KeyOfTx(t) = KeyOfBudget(b) }

SpentIsSum(d, b) == b.spent = SumAmounts(ExpensesOf(d, b))

\* the rows of a step that are not in the next state as they were
ChangedTx == { t \in db.transactions : t \notin db'.transactions }
RowAfter(t) == CHOOSE u \in db'.transactions : u.id = t.id

\* what a row contributes to a budget's spent
Contribution(t, b) ==
  IF t.userId = b.userId /\ t.type = EXPENSE /\ KeyOfTx(t) = KeyOfBudget(b)
    THEN t.amount ELSE 0

BudgetAfter(b) ==
  CHOOSE c \in db'.budgets : c.userId = b.userId /\ KeyOfBudget(c) = KeyOfBudget(b)

SameBudgetKeys ==
  { <<b.userId, KeyOfBudget(b)>> : b \in db'.budgets }
    = { <<b.userId, KeyOfBudget(b)>> : b \in db.budgets }

Finished(op) == last'.op = op /\ last'.res = "ok" /\ <<db, last>>' # <<db, last>>

----------------------------------------------------------------------------
(* C1: after every sequence of transaction.create / update / delete, each   *)
(* Budget row's spent is the exact sum of the amounts of the surviving      *)
(* EXPENSE transactions of its (userId, categoryId, month, year) key.       *)

----------------------------------------------------------------------------
(* C8: transaction.update subtracts the old amount from the old key's       *)
(* budget when the old type is EXPENSE and adds the new amount to the new   *)
(* key's budget when the resulting type is EXPENSE, the new key and amount  *)
(* being those of the row as updated: EXPENSE->EXPENSE both, EXPENSE->INCOME *)
(* only the subtraction, INCOME->EXPENSE only the addition, INCOME->INCOME  *)
(* nothing.                                                                  *)

UpdateLedgerDeltas ==
  /\ Cardinality(ChangedTx) <= 1
  /\ { t.id : t \in db'.transactions } = { t.id : t \in db.transactions }
  /\ SameBudgetKeys
  /\ \A b \in db.budgets :
       /\ BudgetAfter(b).amount = b.amount
       /\ \A t \in ChangedTx :
            BudgetAfter(b).spent =
              b.spent - Contribution(t, b) + Contribution(RowAfter(t), b)
       /\ ChangedTx = {} => BudgetAfter(b).spent = b.spent

C8_UpdateTypeTransitions ==
  [][Finished("transaction.update") => UpdateLedgerDeltas]_vars

\* an update has just turned the only transaction ever created into an INCOME
\* while its budget, which counted it, is back at 0 (EXPENSE -> INCOME)
C8_Witness ==
  /\ last.op = "transaction.update" /\ last.res = "ok"
  /\ db.nextTxId = 2
  /\ \E t \in db.transactions : \E b \in db.budgets :
       /\ t.type = INCOME
       /\ KeyOfTx(t) = KeyOfBudget(b)
       /\ b.spent = 0

----------------------------------------------------------------------------
(* C9: an update that moves an EXPENSE from category A / month M to         *)
(* category B / month N takes the old amount off the A/M budget if it       *)
(* exists, adds the new amount to the B/N budget if it exists, and leaves   *)
(* every other Budget row as it was; no Budget row is created.              *)

MovesAcross(t) ==
  /\ t.type = EXPENSE /\ RowAfter(t).type = EXPENSE
  /\ t.categoryId # RowAfter(t).categoryId
  /\ KeyOfTx(t).month # KeyOfTx(RowAfter(t)).month

MoveFrame ==
  \A t \in ChangedTx : MovesAcross(t) =>
    /\ SameBudgetKeys
    /\ \A b \in db.budgets :
         BudgetAfter(b) =
           IF KeyOfBudget(b) = KeyOfTx(t)
             THEN [b EXCEPT !.spent = @ - t.amount]
           ELSE IF KeyOfBudget(b) = KeyOfTx(RowAfter(t))
             THEN [b EXCEPT !.spent = @ + RowAfter(t).amount]
           ELSE b

C9_MoveAcrossKeys == [][Finished("transaction.update") => MoveFrame]_vars

\* the only transaction ever created is an EXPENSE of food / July while the
\* fun / June budget, which exists, holds nothing and the food / July budget is
\* missing: the expense left fun / June, and no budget was made for it
C9_Witness ==
  /\ last.op = "transaction.update" /\ last.res = "ok"
  /\ db.nextTxId = 2
  /\ \E t \in db.transactions :
       /\ t.type = EXPENSE /\ t.categoryId = "food" /\ KeyOfTx(t).month = 7
       /\ \E b \in db.budgets :
            b.categoryId = "fun" /\ b.month = 6 /\ b.spent = 0
       /\ ~\E b \in db.budgets : KeyOfBudget(b) = KeyOfTx(t)
       /\ Cardinality(db.budgets) >= 2

----------------------------------------------------------------------------
(* C10: a transaction.update that supplies only the description leaves the  *)
(* spent of every Budget row (and every other Budget field) as it was, for  *)
(* INCOME and EXPENSE rows alike.                                           *)

C10_DescriptionOnlyKeepsBudgets ==
  [][\A input \in DescriptionOnlyInputs :
       transactionUpdate("u1", input) => db'.budgets = db.budgets]_vars

\* an EXPENSE that its budget counts has just been given a description
C10_Witness ==
  /\ last.op = "transaction.update" /\ last.res = "ok"
  /\ \E t \in db.transactions : \E b \in db.budgets :
       /\ t.description = Some("memo")
       /\ t.type = EXPENSE
       /\ KeyOfTx(t) = KeyOfBudget(b)
       /\ b.spent = t.amount


----------------------------------------------------------------------------
(* C4: one sequential processDue call creates, for each recurrence it       *)
(* selects, exactly one Transaction dated at the recurrence's nextDueDate   *)
(* as it was before the call (not at now), carrying the recurrence's        *)
(* category, amount, type, description and id; adds the amount to the       *)
(* matching Budget.spent when the type is EXPENSE; advances nextDueDate by  *)
(* exactly one period; and returns the number of transactions created.      *)

\* the same day of the month and time of day, k calendar months later
MonthsLater(date, k) ==
  LET c  == CivilFromDays(date.day)
      m0 == c.m - 1 + k
  IN  [day |-> DaysFromCivil(c.y + (m0 \div 12), (m0 % 12) + 1, c.d), ms |-> date.ms]

OnePeriodAfter(date, frequency) ==
  CASE frequency = DAILY     -> [day |-> date.day + 1, ms |-> date.ms]
    [] frequency = WEEKLY    -> [day |-> date.day + 7, ms |-> date.ms]
    [] frequency = BIWEEKLY  -> [day |-> date.day + 14, ms |-> date.ms]
    [] frequency = MONTHLY   -> MonthsLater(date, 1)
    [] frequency = QUARTERLY -> MonthsLater(date, 3)
    [] frequency = YEARLY    -> MonthsLater(date, 12)

\* the recurrences a call at the current instant selects
Selected ==
  { r \in db.recurrences :
      /\ r.userId = "u1" /\ r.isActive
      /\ DateLE(r.nextDueDate, now)
      /\ (Has(r.endDate) => DateLE(now, r.endDate[1])) }

GeneratedTx == db'.transactions \ db.transactions

\* the occurrence of a recurrence as a transaction would carry it
Occurrence(r) ==
  [userId |-> r.userId, categoryId |-> r.categoryId, amount |-> r.amount,
   type |-> r.type, description |-> r.description, date |-> r.nextDueDate,
   recurrenceId |-> Some(r.id)]

ProcessDueEffect ==
  /\ \A r \in Selected :
       /\ Cardinality({ t \in GeneratedTx : t.recurrenceId = Some(r.id) }) = 1
       /\ \E t \in GeneratedTx : t = [id |-> t.id] @@ Occurrence(r)
       /\ \E q \in db'.recurrences :
            /\ q.id = r.id
            /\ q.nextDueDate = OnePeriodAfter(r.nextDueDate, r.frequency)
  /\ \A t \in GeneratedTx : \E r \in Selected : t.recurrenceId = Some(r.id)
  /\ db.transactions \subseteq db'.transactions
  /\ last'.n = Cardinality(GeneratedTx)
  /\ SameBudgetKeys
  /\ \A b \in db.budgets :
       BudgetAfter(b).spent =
         b.spent + SumAmounts({ t \in GeneratedTx : Contribution(t, b) # 0 })
  /\ \A r \in db.recurrences \ Selected : r \in db'.recurrences

C4_ProcessDueOneOccurrence ==
  [][Finished("recurrence.processDue") => ProcessDueEffect]_vars

\* MONTHLY from 2024-01-01 processed at 2024-02-01: one transaction dated
\* 2024-01-01, nextDueDate 2024-02-01, the January budget charged
C4_Witness ==
  /\ last = Done("recurrence.processDue", "ok", 1)
  /\ now = Day(2024, 2, 1)
  /\ \E r \in db.recurrences :
       /\ r.frequency = MONTHLY /\ r.type = EXPENSE
       /\ r.startDate = Day(2024, 1, 1)
       /\ r.nextDueDate = Day(2024, 2, 1)
       /\ { t.date : t \in { u \in db.transactions : u.recurrenceId = Some(r.id) } }
            = {Day(2024, 1, 1)}
       /\ Cardinality({ u \in db.transactions : u.recurrenceId = Some(r.id) }) = 1
       /\ \E b \in db.budgets :
            /\ KeyOfBudget(b) = [categoryId |-> r.categoryId, month |-> 1, year |-> 2024]
            /\ b.spent = r.amount


----------------------------------------------------------------------------
(* C2: when update and delete requests on the same EXPENSE transaction      *)
(* overlap (each a read of the row followed by one atomic store             *)
(* transaction), then once both have finished every Budget.spent equals the *)
(* sum of the surviving EXPENSE transactions of its key.                    *)

C2_ConcurrentLedger ==
  reqs = {} => \A b \in db.budgets : SpentIsSum(db, b)


----------------------------------------------------------------------------
(* C3: if transaction.create, update or delete stops at any step, the store *)
(* is in the complete pre-state or the complete post-state: whenever the    *)
(* store changes while a request is open, the change is the whole effect of *)
(* the request (row change and budget adjustments together), and every      *)
(* Budget.spent still matches its transactions.                             *)

StoreChangeIsWhole ==
  \E q \in reqs :
    /\ db' = runTransaction(db, q.all).db
    /\ q.stmts = <<>>
    /\ \A b \in db'.budgets : SpentIsSum(db', b)

C3_AllOrNothing ==
  [][(reqs # {} /\ db' # db) => StoreChangeIsWhole]_vars

\* an update stopped after its first budget adjustment and its row write;
\* the row and the budgets are as before
C3_Witness ==
  /\ last = Done("transaction.update", "aborted", 2)
  /\ \E t \in db.transactions : t.type = EXPENSE /\ t.amount = 50
  /\ \E b \in db.budgets : b.spent = 50


----------------------------------------------------------------------------
(* C5: when two processDue requests of the same user overlap (each reads    *)
(* the due recurrences and then runs its atomic batch), no occurrence of a  *)
(* recurrence is materialized twice: a recurrence has at most one           *)
(* transaction for a due date.                                              *)

C5_NoDoubleMaterialization ==
  \A t \in db.transactions : \A u \in db.transactions :
    (Has(t.recurrenceId) /\ t.recurrenceId = u.recurrenceId /\ t.date = u.date)
      => t = u


----------------------------------------------------------------------------
(* C7: the processDue batch is all-or-nothing. In every reachable state,    *)
(* also while a batch is open and after it stopped at any step, the         *)
(* transactions generated for a recurrence are exactly its occurrences from *)
(* startDate up to, and not including, its nextDueDate (none advanced       *)
(* without its transaction, no transaction without the advance), and every  *)
(* Budget.spent covers exactly the transactions of its key.                 *)

RECURSIVE OccurrencesUntil(_, _, _)
OccurrencesUntil(date, frequency, until) ==
  IF DateLE(until, date) THEN {}
  ELSE {date} \cup OccurrencesUntil(OnePeriodAfter(date, frequency), frequency, until)

GeneratedBy(r) == { t \in db.transactions : t.recurrenceId = Some(r.id) }

C7_BatchAllOrNothing ==
  /\ \A r \in db.recurrences :
       /\ { t.date : t \in GeneratedBy(r) }
            = OccurrencesUntil(r.startDate, r.frequency, r.nextDueDate)
       /\ Cardinality(GeneratedBy(r))
            = Cardinality(OccurrencesUntil(r.startDate, r.frequency, r.nextDueDate))
  /\ \A b \in db.budgets : SpentIsSum(db, b)

\* a batch over two due recurrences stopped after the first was done and the
\* transaction of the second was created: nothing of it is in the store
C7_Witness ==
  /\ last = Done("recurrence.processDue", "aborted", 4)
  /\ db.transactions = {}
  /\ Cardinality(db.recurrences) = 2
  /\ \A r \in db.recurrences : r.nextDueDate = r.startDate /\ r.type = EXPENSE
  /\ \E b \in db.budgets : b.spent = 0


----------------------------------------------------------------------------
(* C6: in every state reachable by a sequential sequence of the public      *)
(* operations (transaction.create/update/delete, budget.getOrCreate/update/ *)
(* delete/copyFromPreviousMonth/recalculateSpent, recurrence.processDue),   *)
(* every Budget row's spent equals the sum of the amounts of its owner's    *)
(* EXPENSE transactions of the same category dated in its month and year.   *)

C6_SpentIsSumEverywhere ==
  \A b \in db.budgets :
    b.spent = SumAmounts({ t \in db.transactions :
                             /\ t.userId = b.userId
                             /\ t.categoryId = b.categoryId
                             /\ t.type = EXPENSE
                             /\ getMonth(t.date) + 1 = b.month
                             /\ getFullYear(t.date) = b.year })

----------------------------------------------------------------------------
(* C11: budgets are opt-in. transaction.create, update, delete and          *)
(* recurrence.processDue never create or delete a Budget row and never      *)
(* change an amount; a Budget row whose key is not the key of an EXPENSE    *)
(* the request touched is unchanged, so when no Budget row exists for the   *)
(* key of the EXPENSE the delta is dropped and all Budget rows are as       *)
(* before.                                                                  *)

LedgerWriters ==
  {"transaction.create", "transaction.update", "transaction.delete",
   "recurrence.processDue"}

\* the EXPENSE rows a step adds, removes or changes, before and after
TouchedExpenses ==
  { t \in (db.transactions \ db'.transactions) \cup (db'.transactions \ db.transactions) :
      t.type = EXPENSE }

BudgetsOptIn ==
  /\ SameBudgetKeys
  /\ \A b \in db.budgets :
       /\ BudgetAfter(b).amount = b.amount
       /\ (\A t \in TouchedExpenses : t.userId # b.userId \/ KeyOfTx(t) # KeyOfBudget(b))
            => b \in db'.budgets
  /\ (\A t \in TouchedExpenses : \A b \in db.budgets :
         t.userId # b.userId \/ KeyOfTx(t) # KeyOfBudget(b))
       => db'.budgets = db.budgets

C11_BudgetsAreOptIn ==
  [][(last'.op \in LedgerWriters /\ <<db, last>>' # <<db, last>>) => BudgetsOptIn]_vars

\* an EXPENSE of February was created and then one was generated for January
\* while only the January budget exists: it holds the generated amount alone
C11_Witness ==
  /\ last = Done("recurrence.processDue", "ok", 1)
  /\ \E t \in db.transactions :
       t.type = EXPENSE /\ KeyOfTx(t).month = 2 /\ t.recurrenceId = None
  /\ \E t \in db.transactions : Has(t.recurrenceId) /\ KeyOfTx(t).month = 1
  /\ \E b \in db.budgets : b.month = 1 /\ b.spent = 1599
  /\ \A b \in db.budgets : b.month = 1

----------------------------------------------------------------------------
(* C12: after processDue has processed a recurrence, the recurrence is      *)
(* inactive if and only if it has an endDate and its newly computed         *)
(* nextDueDate is strictly later than that endDate; without endDate, or     *)
(* with the new nextDueDate at or before endDate, it stays active.          *)

RecurrenceAfter(r) == CHOOSE q \in db'.recurrences : q.id = r.id

ActiveUnlessPastEnd ==
  \A r \in Selected :
    /\ \E q \in db'.recurrences : q.id = r.id
    /\ RecurrenceAfter(r).isActive
         = ~(Has(r.endDate) /\ DateGT(RecurrenceAfter(r).nextDueDate, r.endDate[1]))

C12_InactiveIffPastEnd ==
  [][Finished("recurrence.processDue") => ActiveUnlessPastEnd]_vars

\* one call processed a recurrence whose next due date is its endDate (still
\* active) and one whose next due date is after its endDate (switched off)
C12_Witness ==
  /\ last = Done("recurrence.processDue", "ok", 2)
  /\ \E r \in db.recurrences :
       r.isActive /\ Has(r.endDate) /\ r.nextDueDate = r.endDate[1]
  /\ \E r \in db.recurrences :
       ~r.isActive /\ Has(r.endDate) /\ DateGT(r.nextDueDate, r.endDate[1])

----------------------------------------------------------------------------
(* C16: a processDue call issued when no recurrence of the user is due      *)
(* selects nothing: it creates no Transaction, changes no Budget and no     *)
(* Recurrence and returns processed = 0; and every recurrence a call does   *)
(* not select (inactive, nextDueDate > now, or endDate < now) is unchanged. *)

NotSelected ==
  { r \in db.recurrences :
      \/ ~r.isActive
      \/ DateGT(r.nextDueDate, now)
      \/ (Has(r.endDate) /\ DateGT(now, r.endDate[1])) }

UnselectedUntouched ==
  /\ \A r \in NotSelected : r \in db'.recurrences
  /\ NotSelected = db.recurrences => (db' = db /\ last'.n = 0)

C16_ProcessDueFrame ==
  [][Finished("recurrence.processDue") => UnselectedUntouched]_vars

\* a call found nothing due although one active recurrence is overdue past
\* its endDate and another is switched off
C16_Witness ==
  /\ last = Done("recurrence.processDue", "ok", 0)
  /\ \E r \in db.recurrences :
       r.isActive /\ DateLE(r.nextDueDate, now)
       /\ Has(r.endDate) /\ DateGT(now, r.endDate[1])
  /\ \E r \in db.recurrences : ~r.isActive
  /\ db.transactions # {}

----------------------------------------------------------------------------
(* C13: the processor never reactivates a recurrence. In every interleaving *)
(* of processDue with recurrence.update, no step of processDue changes      *)
(* isActive of a recurrence from false to true; in particular a recurrence  *)
(* switched off between the read of the due set and the commit of the batch *)
(* stays inactive.                                                          *)

C13_NeverReactivates ==
  [][(last'.op = "recurrence.processDue" /\ db' # db)
       => \A r \in db.recurrences : \A q \in db'.recurrences :
            (q.id = r.id /\ ~r.isActive) => ~q.isActive]_vars

----------------------------------------------------------------------------
(* C14: a recurrence with an endDate becomes inactive once the endDate is   *)
(* surpassed: if processDue keeps being invoked as the clock advances,      *)
(* every active recurrence whose endDate is earlier than now is eventually  *)
(* set to isActive = false.                                                 *)

ActivePastEnd(id) ==
  \E r \in db.recurrences :
    r.id = id /\ r.isActive /\ Has(r.endDate) /\ DateGT(now, r.endDate[1])

Inactive(id) == \A r \in db.recurrences : r.id = id => ~r.isActive

C14_EndedBecomesInactive ==
  \A id \in 1 .. MaxRec : ActivePastEnd(id) ~> Inactive(id)

----------------------------------------------------------------------------
(* C15: catch-up terminates. For a fixed now and a recurrence several       *)
(* periods overdue, every processDue call generates one transaction per     *)
(* selected recurrence, dated at its due date, and moves it to the next due *)
(* date only; no occurrence before nextDueDate is without its transaction;  *)
(* after finitely many calls nothing is selected any more, and calls that   *)
(* select nothing change nothing.                                           *)

NoOccurrenceSkipped ==
  \A r \in db.recurrences :
    \A date \in OccurrencesUntil(r.startDate, r.frequency, r.nextDueDate) :
      \E t \in db.transactions : t.recurrenceId = Some(r.id) /\ t.date = date

OneOccurrencePerCall ==
  /\ \A r \in Selected :
       /\ Cardinality({ t \in GeneratedTx : t.recurrenceId = Some(r.id) }) = 1
       /\ \A t \in GeneratedTx : t.recurrenceId = Some(r.id) => t.date = r.nextDueDate
       /\ \A q \in db'.recurrences :
            q.id = r.id => q.nextDueDate = OnePeriodAfter(r.nextDueDate, r.frequency)
  /\ Selected = {} => db' = db

C15_CatchUpTerminates ==
  /\ []NoOccurrenceSkipped
  /\ [][Finished("recurrence.processDue") => OneOccurrencePerCall]_vars
  /\ <>[](Selected = {})

\* MONTHLY from 2024-01-01 created at 2024-03-01: three calls generated
\* January, February and March, and a fourth found nothing to do
C15_Witness ==
  /\ last = Done("recurrence.processDue", "ok", 0)
  /\ now = Day(2024, 3, 1)
  /\ \E r \in db.recurrences :
       /\ r.frequency = MONTHLY /\ r.isActive
       /\ r.nextDueDate = Day(2024, 4, 1)
       /\ { t.date : t \in db.transactions }
            = {Day(2024, 1, 1), Day(2024, 2, 1), Day(2024, 3, 1)}
       /\ Cardinality(db.transactions) = 3
  /\ dueRecurrences(db, "u1", now) = {}

----------------------------------------------------------------------------
(* C17: after a sequential budget.getOrCreate(categoryId, month, year,      *)
(* amount) on a category of the caller, exactly one Budget row exists for   *)
(* the key, its amount is the input amount and its spent is the sum of the  *)
(* caller's EXPENSE transactions of that category dated inside that month,  *)
(* whether the row existed or not; with a missing or foreign category the   *)
(* call fails with NOT_FOUND.                                               *)

\* the instant lies in the calendar month
InMonth(date, month, year) ==
  getMonth(date) + 1 = month /\ getFullYear(date) = year

SumInMonth(uid, categoryId, month, year) ==
  SumAmounts({ t \in db.transactions :
                 /\ t.userId = uid /\ t.categoryId = categoryId
                 /\ t.type = EXPENSE /\ InMonth(t.date, month, year) })

GetOrCreateEffect(uid, input) ==
  IF categoryFound(uid, input.categoryId)
    THEN /\ last'.res = "ok"
         /\ { b \in db'.budgets :
                budgetWhere(b, uid, input.categoryId, input.month, input.year) }
              = {[userId |-> uid, categoryId |-> input.categoryId,
                  month |-> input.month, year |-> input.year,
                  amount |-> input.amount,
                  spent |-> SumInMonth(uid, input.categoryId, input.month, input.year)]}
    ELSE /\ last'.res = "NOT_FOUND"
         /\ db' = db

C17_GetOrCreateEffect ==
  [][\A input \in BudgetInputs :
       budgetGetOrCreate("u1", input) => GetOrCreateEffect("u1", input)]_vars

----------------------------------------------------------------------------
(* C19: after a sequential budget.recalculateSpent(month, year), every      *)
(* Budget row of the caller for that month and year has spent equal to the  *)
(* exact sum of the caller's EXPENSE transactions of its category dated     *)
(* inside that month (0 when there are none); budgets of other months or    *)
(* other users and every amount are unchanged; a second run with no         *)
(* mutation in between changes nothing.                                     *)

RecalculateEffect(uid, input) ==
  /\ db'.transactions = db.transactions
  /\ db'.budgets =
       { IF b.userId = uid /\ b.month = input.month /\ b.year = input.year
           THEN [b EXCEPT !.spent = SumInMonth(uid, b.categoryId, b.month, b.year)]
           ELSE b : b \in db.budgets }

C19_RecalculateEffect ==
  [][\A input \in RecurrenceMonths :
       budgetRecalculateSpent("u1", input) => RecalculateEffect("u1", input)]_vars

----------------------------------------------------------------------------
(* C18: budget.copyFromPreviousMonth(targetMonth, targetYear), when the     *)
(* previous calendar month (December of targetYear - 1 for January) has a   *)
(* budget, creates for each source budget whose category has no budget in   *)
(* the target month a Budget with the same amount and spent = 0, leaves     *)
(* every existing target-month Budget as it is, and never modifies a source *)
(* budget.                                                                  *)

PreviousBudgets(uid, input) ==
  { b \in db.budgets :
      /\ b.userId = uid
      /\ IF input.targetMonth = 1
           THEN b.month = 12 /\ b.year = input.targetYear - 1
           ELSE b.month = input.targetMonth - 1 /\ b.year = input.targetYear }

CopyEffect(uid, input) ==
  IF PreviousBudgets(uid, input) = {}
    THEN last'.res = "NOT_FOUND" /\ db' = db
    ELSE /\ last'.res = "ok"
         /\ db'.transactions = db.transactions
         /\ db.budgets \subseteq db'.budgets
         /\ db'.budgets \ db.budgets =
              { [userId |-> uid, categoryId |-> s.categoryId,
                 month |-> input.targetMonth, year |-> input.targetYear,
                 amount |-> s.amount, spent |-> 0] :
                s \in { p \in PreviousBudgets(uid, input) :
                          \A b \in db.budgets :
                            ~(b.userId = uid /\ b.categoryId = p.categoryId
                              /\ b.month = input.targetMonth
                              /\ b.year = input.targetYear) } }

C18_CopyEffect ==
  [][\A input \in CopyTargets :
       budgetCopyFromPreviousMonth("u1", input) => CopyEffect("u1", input)]_vars

\* copied from December 2023 to January 2024: the budget of "fun" is new with
\* the December amount and spent 0, the January budget of "food" that existed
\* keeps its own amount and spent, the December budgets are as they were
C18_Witness ==
  /\ last = Done("budget.copyFromPreviousMonth", "ok", 2)
  /\ [userId |-> "u1", categoryId |-> "fun", month |-> 1, year |-> 2024,
      amount |-> 400, spent |-> 0] \in db.budgets
  /\ [userId |-> "u1", categoryId |-> "food", month |-> 1, year |-> 2024,
      amount |-> 500, spent |-> 50] \in db.budgets
  /\ [userId |-> "u1", categoryId |-> "food", month |-> 12, year |-> 2023,
      amount |-> 400, spent |-> 0] \in db.budgets
  /\ Cardinality(db.budgets) = 4

----------------------------------------------------------------------------
(* C20: every operation that fails with NOT_FOUND leaves all Transaction,   *)
(* Budget and Recurrence rows unchanged: transaction.create with a missing  *)
(* or foreign category, transaction.update or delete of a missing or        *)
(* foreign transaction, transaction.update to a missing or foreign          *)
(* category, recurrence.create / update / delete with a missing or foreign  *)
(* recurrence or category, and budget.copyFromPreviousMonth when the source *)
(* month has no budget. Each of these requests does fail with NOT_FOUND.    *)

Owns(uid, categoryId) ==
  categoryId \in DOMAIN CategoryOwner /\ CategoryOwner[categoryId] = uid

NoTransactionOf(uid, id) ==
  \A t \in db.transactions : t.id # id \/ t.userId # uid

NoRecurrenceOf(uid, id) ==
  \A r \in db.recurrences : r.id # id \/ r.userId # uid

\* a step is one of the requests the claim lists
NotFoundRequest ==
  \E uid \in Users :
    \/ \E input \in NotFoundCreateInputs :
         ~Owns(uid, input.categoryId) /\ transactionCreate(uid, input)
    \/ \E input \in NotFoundUpdateInputs :
         /\ \/ NoTransactionOf(uid, input.id)
            \/ (Has(input.categoryId) /\ ~Owns(uid, input.categoryId[1]))
         /\ transactionUpdate(uid, input)
    \/ \E input \in DeleteInputs :
         NoTransactionOf(uid, input.id) /\ transactionDelete(uid, input)
    \/ \E input \in NotFoundRecurrenceInputs :
         ~Owns(uid, input.categoryId) /\ recurrenceCreate(uid, input)
    \/ \E input \in NotFoundRecurrenceUpdateInputs :
         /\ \/ NoRecurrenceOf(uid, input.id)
            \/ (Has(input.categoryId) /\ ~Owns(uid, input.categoryId[1]))
         /\ recurrenceUpdate(uid, input)
    \/ \E input \in [id : 1 .. MaxRec] :
         NoRecurrenceOf(uid, input.id) /\ recurrenceDelete(uid, input)
    \/ \E input \in CopyTargets :
         PreviousBudgets(uid, input) = {} /\ budgetCopyFromPreviousMonth(uid, input)

C20_NotFoundChangesNothing ==
  [][/\ last'.res = "NOT_FOUND" => db' = db
     /\ NotFoundRequest => (last'.res = "NOT_FOUND" /\ db' = db)]_vars

\* the other user asked to delete the caller's recurrence: NOT_FOUND, and the
\* transaction, the budget and the recurrence of the owner are all there
C20_Witness ==
  /\ last = Done("recurrence.delete", "NOT_FOUND", 0)
  /\ \E r \in db.recurrences : r.userId = "u1"
  /\ \E t \in db.transactions : t.userId = "u1"
  /\ \E b \in db.budgets : b.userId = "u1" /\ b.spent = 50
  /\ db.nextTxId > MaxTx

----------------------------------------------------------------------------
(* C21: user isolation. An operation invoked as one user leaves every       *)
(* Transaction, Budget and Recurrence row of the other user as it was, and  *)
(* when it names a row of the other user (a transaction, budget or          *)
(* recurrence id) or a category of the other user, it answers NOT_FOUND as  *)
(* for a row that does not exist, and changes nothing.                      *)

RowsOf(uid) ==
  [transactions |-> { t \in db.transactions : t.userId = uid },
   budgets |-> { b \in db.budgets : b.userId = uid },
   recurrences |-> { r \in db.recurrences : r.userId = uid }]

\* a request of uid that names a row or a category of another user
NamesForeign(uid) ==
  \/ \E input \in IsoCreateInputs :
       ~Owns(uid, input.categoryId) /\ transactionCreate(uid, input)
  \/ \E input \in IsoUpdateInputs :
       /\ \E t \in db.transactions : t.id = input.id /\ t.userId # uid
       /\ transactionUpdate(uid, input)
  \/ \E input \in DeleteInputs :
       /\ \E t \in db.transactions : t.id = input.id /\ t.userId # uid
       /\ transactionDelete(uid, input)
  \/ \E input \in GetOrCreateInputs(IsoCategories, {IsoMonth}) :
       ~Owns(uid, input.categoryId) /\ budgetGetOrCreate(uid, input)
  \/ \E input \in [id : IsoBudgetIds, amount : {300}] :
       input.id.userId # uid /\ budgetUpdate(uid, input)
  \/ \E input \in [id : IsoBudgetIds] :
       input.id.userId # uid /\ budgetDelete(uid, input)
  \/ \E input \in IsoRecurrenceInputs :
       ~Owns(uid, input.categoryId) /\ recurrenceCreate(uid, input)
  \/ \E input \in DeactivateInputs :
       /\ \E r \in db.recurrences : r.id = input.id /\ r.userId # uid
       /\ recurrenceUpdate(uid, input)
  \/ \E input \in [id : 1 .. MaxRec] :
       /\ \E r \in db.recurrences : r.id = input.id /\ r.userId # uid
       /\ recurrenceDelete(uid, input)

C21_UserIsolation ==
  [][\A uid \in Users :
       /\ \A other \in Users \ {uid} :
            \/ RowsOf(other)' = RowsOf(other)
            \/ ~(InvokedAs(uid) \/ Builds(uid))
       /\ \/ last'.res = "NOT_FOUND" /\ db' = db
          \/ ~NamesForeign(uid)]_vars

\* u1 asked to update a transaction of u2 and was refused, while u2 has a
\* user-made and a generated transaction, a budget and a recurrence
C21_Witness ==
  /\ last = Done("transaction.update", "NOT_FOUND", 0)
  /\ \A id \in 1 .. MaxTx : \E t \in db.transactions : t.id = id /\ t.userId = "u2"
  /\ \E t \in db.transactions : t.userId = "u2" /\ Has(t.recurrenceId)
  /\ \E b \in db.budgets : b.userId = "u2" /\ b.spent > 0
  /\ \E r \in db.recurrences : r.userId = "u2"
  /\ \E r \in db.recurrences : r.userId = "u1"

----------------------------------------------------------------------------
(* C22: calculateNextDueDate(d, f) is d plus 1, 7 and 14 calendar days for  *)
(* DAILY, WEEKLY and BIWEEKLY, across month and year ends; for MONTHLY,     *)
(* QUARTERLY and YEARLY it is the date 1 month, 3 months and 1 year later   *)
(* with the same day of the month whenever the target month has that day.   *)
(* Every call returns a date, the time of day is the argument's, and the    *)
(* argument is left as it was.                                              *)

IsLeap(y) == (y % 4 = 0 /\ y % 100 # 0) \/ y % 400 = 0

DaysInMonth(y, m) ==
  IF m \in {4, 6, 9, 11} THEN 30
  ELSE IF m = 2 THEN (IF IsLeap(y) THEN 29 ELSE 28)
  ELSE 31

DaysOf(frequency) ==
  CASE frequency = DAILY -> 1 [] frequency = WEEKLY -> 7 [] frequency = BIWEEKLY -> 14

MonthsOf(frequency) ==
  CASE frequency = MONTHLY -> 1 [] frequency = QUARTERLY -> 3 [] frequency = YEARLY -> 12

\* the year and month k months after those of the civil date c
TargetMonth(c, k) ==
  [y |-> c.y + ((c.m - 1 + k) \div 12), m |-> ((c.m - 1 + k) % 12) + 1]

NextDueDateIs(currentDate, frequency, next) ==
  /\ next.ms = currentDate.ms
  /\ frequency \in {DAILY, WEEKLY, BIWEEKLY} =>
       next.day = currentDate.day + DaysOf(frequency)
  /\ frequency \in {MONTHLY, QUARTERLY, YEARLY} =>
       LET c == CivilFromDays(currentDate.day)
           t == TargetMonth(c, MonthsOf(frequency))
       IN  c.d <= DaysInMonth(t.y, t.m) =>
             CivilFromDays(next.day) = [y |-> t.y, m |-> t.m, d |-> c.d]

----------------------------------------------------------------------------
(* C23: applying calculateNextDueDate twice advances exactly two periods:   *)
(* when a call is made on the date the previous call returned, with the     *)
(* same frequency, it returns the first date advanced directly by 2, 14 or  *)
(* 28 days, by 2 or 6 months, or by 2 years.                                *)

\* d advanced directly by two periods, with the overflow rules of Date
TwoPeriodsAfter(d, frequency) ==
  CASE frequency = DAILY     -> setDate(d, getDate(d) + 2)
    [] frequency = WEEKLY    -> setDate(d, getDate(d) + 14)
    [] frequency = BIWEEKLY  -> setDate(d, getDate(d) + 28)
    [] frequency = MONTHLY   -> setMonth(d, getMonth(d) + 2)
    [] frequency = QUARTERLY -> setMonth(d, getMonth(d) + 6)
    [] frequency = YEARLY    -> setFullYear(d, getFullYear(d) + 2)

C23_TwiceIsTwoPeriods ==
  [][\A q \in reqs, q2 \in reqs' :
       (q2.currentDate = q.next /\ q2.frequency = q.frequency) =>
         q2.next = TwoPeriodsAfter(q.currentDate, q.frequency)]_vars

----------------------------------------------------------------------------
(* C24: recurrence.create stores nextDueDate = startDate and isActive =     *)
(* true; afterwards only processDue changes nextDueDate, and nothing        *)
(* changes startDate: recurrence.update, whatever fields it carries, leaves *)
(* both as they were.                                                       *)

CreatedAsScheduled ==
  /\ db'.recurrences \ db.recurrences # {}
  /\ \A r \in db'.recurrences \ db.recurrences :
       /\ r.startDate \in FrameStartDates
       /\ r.nextDueDate = r.startDate
       /\ r.isActive = TRUE

ScheduleKept ==
  \A r \in db.recurrences, r2 \in db'.recurrences :
    r2.id = r.id =>
      /\ r2.startDate = r.startDate
      /\ r2.nextDueDate = r.nextDueDate \/ last'.op = "recurrence.processDue"

C24_NextDueDateFrame ==
  [][/\ Finished("recurrence.create") => CreatedAsScheduled
     /\ ScheduleKept]_vars

\* every field of a recurrence that had been processed once was updated: it
\* is still due on the date processDue gave it
C24_Witness ==
  /\ last = Done("recurrence.update", "ok", 0)
  /\ \E r \in db.recurrences :
       /\ r.categoryId = "fun" /\ r.amount = 999 /\ r.type = INCOME
       /\ r.frequency = WEEKLY /\ r.endDate = Some(Day(2024, 2, 20))
       /\ r.startDate = Day(2024, 1, 15)
       /\ r.nextDueDate = Day(2024, 2, 15)

----------------------------------------------------------------------------
(* C25: the ledger and the recomputation assign every transaction to the    *)
(* same budget month: the (month, year) key derived from a transaction's    *)
(* date (getMonth() + 1, getFullYear()) is the one month whose recompute    *)
(* date range, first day 00:00:00 to last day 23:59:59, contains the date,  *)
(* also for instants inside the final second of the last day of a month.    *)

\* the date is inside the range the recomputation aggregates for the month
InRecomputeRange(date, month, year) ==
  DateLE(monthStart(month, year), date) /\ DateLE(date, monthEnd(month, year))

C25_SameBudgetMonth ==
  \A t \in db.transactions, k \in RecurrenceMonths :
    InRecomputeRange(t.date, k.month, k.year)
      <=> (k.month = getMonth(t.date) + 1 /\ k.year = getFullYear(t.date))

----------------------------------------------------------------------------
(* C26: Budget.spent is never negative: in every state reached by the       *)
(* public transaction, budget and recurrence operations executed one after  *)
(* the other, every Budget row has spent >= 0.                              *)

C26_SpentNeverNegative == \A b \in db.budgets : b.spent >= 0

----------------------------------------------------------------------------
(* C27: when budget.getOrCreate or budget.recalculateSpent of a key         *)
(* overlaps with a transaction mutation of the same key, then once all      *)
(* requests have finished the key's Budget.spent equals the sum of its      *)
(* EXPENSE transactions: the recomputed value neither overwrites nor misses *)
(* a delta committed in between.                                            *)

C27_RecomputeKeepsDeltas ==
  reqs = {} =>
    \A b \in db.budgets :
      b.spent = SumInMonth(b.userId, b.categoryId, b.month, b.year)

----------------------------------------------------------------------------
(* C28: getUpcoming and processDue agree on what is due: every recurrence   *)
(* that getUpcoming reports with daysUntilDue <= 0 (active, nextDueDate <=  *)
(* now) is selected by a processDue call at the same now, which generates   *)
(* its transaction.                                                         *)

ReportedDue ==
  { u.row : u \in { v \in getUpcoming(db, "u1", now, 30) : v.daysUntilDue <= 0 } }

C28_UpcomingDueIsProcessed ==
  [][recurrenceProcessDue("u1") =>
       \A r \in ReportedDue :
         /\ r \in dueRecurrences(db, "u1", now)
         /\ \E t \in db'.transactions \ db.transactions :
              t.recurrenceId = Some(r.id)]_vars

----------------------------------------------------------------------------
(* C29: with requests executed one after the other, every transaction that  *)
(* processDue generates for a recurrence is dated no earlier than the       *)
(* recurrence's startDate and, when the recurrence has an endDate at that   *)
(* moment, no later than it; a recurrence whose next due date is past its   *)
(* endDate gets no further transaction, also after its user switched it on  *)
(* again.                                                                   *)

WithinItsDates(t) ==
  \E r \in db.recurrences :
    /\ t.recurrenceId = Some(r.id)
    /\ DateLE(r.startDate, t.date)
    /\ Has(r.endDate) => DateLE(t.date, r.endDate[1])

PastItsEnd(r) == Has(r.endDate) /\ DateGT(r.nextDueDate, r.endDate[1])

C29_GeneratedWithinDates ==
  [][last'.op = "recurrence.processDue" =>
       /\ \A t \in db'.transactions \ db.transactions : WithinItsDates(t)
       /\ \A r \in db.recurrences :
            PastItsEnd(r) =>
              \A t \in db'.transactions \ db.transactions : t.recurrenceId # Some(r.id)]_vars

\* the recurrence was processed once, which put its next due date past its
\* end date and switched it off; its user switched it on again, and a
\* processDue call after that date generated nothing
C29_Witness ==
  /\ last = Done("recurrence.processDue", "ok", 0)
  /\ \E r \in db.recurrences :
       /\ r.isActive /\ PastItsEnd(r) /\ DateLE(r.nextDueDate, now)
       /\ \E t \in db.transactions : t.recurrenceId = Some(r.id)

----------------------------------------------------------------------------
(* C30: calculateNextDueDate(d, f) is strictly later than d for every date  *)
(* and frequency; so, with requests executed one after the other, the       *)
(* nextDueDate of a recurrence never decreases and strictly increases in    *)
(* every processDue that selects it, and two transactions generated from    *)
(* the same recurrence never have the same date.                            *)

\* on dates at month and year ends, in leap and common years, and on the due
\* dates the recurrences come to have
AlwaysLater ==
  \A d \in DueDates \cup { r.nextDueDate : r \in db.recurrences },
     f \in RecurrenceFrequency :
    DateGT(calculateNextDueDate(d, f), d)

NextDueDateMovesForward ==
  \A r \in db.recurrences, q \in db'.recurrences :
    q.id = r.id =>
      /\ DateLE(r.nextDueDate, q.nextDueDate)
      /\ (r \in Selected /\ recurrenceProcessDue("u1")) =>
           DateGT(q.nextDueDate, r.nextDueDate)

GeneratedDatesDiffer ==
  \A t1 \in db.transactions, t2 \in db.transactions :
    (Has(t1.recurrenceId) /\ t1.recurrenceId = t2.recurrenceId /\ t1.id # t2.id) =>
      t1.date # t2.date

====
